---- MODULE Spec2Model ----
(***************************************************************************)
(* CABB (Digital-Grinnell): the batch pipeline of src/app.py.              *)
(*                                                                         *)
(* Two groups of definitions share this module:                            *)
(*   - the record-edit operations of AlmaBibEditor (Functions 2, 6, 7) as  *)
(*     operators on an abstract Dublin Core record, exercised by           *)
(*     SpecMutation (one record in the remote store, edited repeatedly);   *)
(*   - the batch runs (the chunked exports/analyses and the per-item       *)
(*     loops of the Function N handlers), exercised by Spec.               *)
(***************************************************************************)
EXTENDS Integers, Sequences, FiniteSets, TLC

(***************************************************************************)
(* Element texts.  A text is a record: head is the leading part that the   *)
(* code tests with startswith, url / target say whether the text contains  *)
(* url_pattern / 'target="_blank"', tail is the rest.  The empty text      *)
(* stands for an element whose .text is None or "".                        *)
(***************************************************************************)
Text(h, u, t, l) == [head |-> h, url |-> u, target |-> t, tail |-> l]

EmptyText == Text("", FALSE, FALSE, "")

pattern_start == "Copyright to this work is held by the author(s)"

grinnell_pattern_start == "Grinnell College Libraries does not own the copyright in these images"

new_value == Text("<a href=", TRUE, TRUE, ">Public Domain in the United States</a>")

pattern == "alma:01GCL_INST/bibs/collections/"

\* text truthiness, str.startswith, 'url_pattern in text', 'target="_blank" in text'
HasText(t) == t # EmptyText

StartsWith(t, p) == t.head = p

ContainsUrl(t) == t.url

ContainsTarget(t) == t.target

\* dc:rights texts the model draws records from
RightsTexts ==
    { new_value,
      Text(pattern_start, FALSE, FALSE, " of the work"),
      Text(grinnell_pattern_start, FALSE, FALSE, "."),
      Text("<a href=", TRUE, FALSE, ">Public Domain in the United States</a>"),
      Text("<a href=", TRUE, TRUE, ">No Copyright - United States</a>"),
      Text("In Copyright", FALSE, FALSE, ""),
      EmptyText }

\* dc:relation texts
RelationTexts ==
    { Text(pattern, FALSE, FALSE, "81294713150004641"),
      Text(pattern, FALSE, FALSE, "81342586470004641"),
      Text("Digital Grinnell", FALSE, FALSE, ""),
      EmptyText }

\* dc:identifier texts
IdentifierTexts ==
    { Text("dg_", FALSE, FALSE, "1714"),
      Text("dg_", FALSE, FALSE, "2212"),
      Text("Grinnell:", FALSE, FALSE, "1714"),
      Text("http://hdl.handle.net/", FALSE, FALSE, "11084/1714"),
      EmptyText }

(***************************************************************************)
(* A record (the parsed XML tree of one bib) keeps, per Dublin Core field, *)
(* the texts of its occurrences in document order.  dc_other says whether  *)
(* the tree has an element of another dc: tag of dc_test_tags (title,      *)
(* creator, ...); anies_any whether the namespaced anies element with a    *)
(* child exists.                                                           *)
(***************************************************************************)
Record(r, l, d, o, a) ==
    [rights |-> r, relations |-> l, identifiers |-> d, dc_other |-> o, anies_any |-> a]

\* the subsequence of s at the indexes not in drop
RemoveAt(s, drop) ==
    LET F[k \in 0..Len(s)] ==
            IF k = 0 THEN << >>
            ELSE IF k \in drop THEN F[k - 1] ELSE Append(F[k - 1], s[k])
    IN  F[Len(s)]

\* the indexes of s, ascending, whose element is one of matching
IndexesWhere(s, matching) ==
    LET F[k \in 0..Len(s)] ==
            IF k = 0 THEN << >>
            ELSE IF s[k] \in matching THEN Append(F[k - 1], k) ELSE F[k - 1]
    IN  F[Len(s)]

Range(s) == { s[k] : k \in 1..Len(s) }

\* the result of one operation call
Result(ok, oc, doc, put) == [success |-> ok, outcome |-> oc, doc |-> doc, put |-> put]

(***************************************************************************)
(* replace_author_copyright_rights (Function 6).                           *)
(***************************************************************************)
\* the if/elif chain that classifies one dc:rights element
IsNewValue(t) == HasText(t) /\ t = new_value

IsAuthorCopyright(t) == HasText(t) /\ ~IsNewValue(t) /\ StartsWith(t, pattern_start)

IsGrinnellCopyright(t) ==
    /\ HasText(t) /\ ~IsNewValue(t) /\ ~StartsWith(t, pattern_start)
    /\ StartsWith(t, grinnell_pattern_start)

IsOldLink(t) ==
    /\ HasText(t) /\ ~IsNewValue(t) /\ ~StartsWith(t, pattern_start)
    /\ ~StartsWith(t, grinnell_pattern_start)
    /\ ContainsUrl(t) /\ ~ContainsTarget(t)

url_exists(rights) == \E k \in 1..Len(rights) : IsNewValue(rights[k])

\* variant: the old elements in document order, whatever their class
elements_in_document_order(rights) ==
    IndexesWhere(rights, { t \in Range(rights) :
                             IsAuthorCopyright(t) \/ IsGrinnellCopyright(t) \/ IsOldLink(t) })

\* author_copyright_elements + grinnell_copyright_elements + old_link_elements,
\* as indexes into rights: grouped by class, document order inside a class
elements_to_replace(rights) ==
    IndexesWhere(rights, { t \in Range(rights) : IsAuthorCopyright(t) })
        \o IndexesWhere(rights, { t \in Range(rights) : IsGrinnellCopyright(t) })
        \o IndexesWhere(rights, { t \in Range(rights) : IsOldLink(t) })

\* variant: only the author copyright elements are removed
RemoveAuthorFields(rights) ==
    RemoveAt(rights, { k \in 1..Len(rights) : IsAuthorCopyright(rights[k]) })

\* url_exists branch: every old element is removed from its parent
RemoveOldFields(rights) == RemoveAt(rights, Range(elements_to_replace(rights)))

\* variant: the first element is rewritten and the others are kept
ReplaceFirstKeepRest(rights) ==
    [rights EXCEPT ![elements_to_replace(rights)[1]] = new_value]

\* replace branch: first_elem.text = new_value, the others are removed
ReplaceFirstRemoveRest(rights) ==
    LET elems == elements_to_replace(rights)
    IN  RemoveAt([rights EXCEPT ![elems[1]] = new_value], Range(Tail(elems)))

\* the search for dc_parent: another dc: element, else the first child of anies
dc_parent_found(rec) ==
    \/ rec.dc_other
    \/ rec.identifiers # << >>
    \/ rec.relations # << >>
    \/ rec.anies_any

\* variant: the status of the PUT response is not looked at
WriteBackUnchecked(doc, oc, put_ok) == Result(TRUE, oc, doc, TRUE)

\* Step 5: the PUT of the modified tree and the classification of its status
WriteBack(doc, oc, put_ok) ==
    IF put_ok THEN Result(TRUE, oc, doc, TRUE) ELSE Result(FALSE, "error", doc, TRUE)

replace_author_copyright_rights(rec, get_ok, put_ok) ==
    LET rights == rec.rights IN
    IF ~get_ok THEN Result(FALSE, "error", rec, FALSE)
    ELSE IF url_exists(rights) THEN
        IF elements_to_replace(rights) # << >>
        THEN WriteBack([rec EXCEPT !.rights = RemoveOldFields(rights)],
                       "removed_duplicates", put_ok)
        ELSE Result(TRUE, "no_change", rec, FALSE)
    ELSE IF elements_to_replace(rights) = << >> THEN
        IF Len(rights) = 0 THEN
            IF dc_parent_found(rec)
            THEN WriteBack([rec EXCEPT !.rights = Append(rights, new_value)],
                           "added", put_ok)
            ELSE Result(FALSE, "error", rec, FALSE)
        ELSE Result(TRUE, "no_change", rec, FALSE)
    ELSE WriteBack([rec EXCEPT !.rights = ReplaceFirstRemoveRest(rights)],
                   "replaced", put_ok)

(***************************************************************************)
(* clear_dc_relation_collections (Function 2).  The outcome names the      *)
(* returned message: "removed" (Successfully removed n ...), "no_match"    *)
(* (No matching dc:relation fields found), "error".                        *)
(***************************************************************************)
IsCollectionRelation(t) == HasText(t) /\ StartsWith(t, pattern)

RemoveCollectionRelations(relations) ==
    RemoveAt(relations,
             Range(IndexesWhere(relations,
                                { t \in Range(relations) : IsCollectionRelation(t) })))

\* variant: no early return when nothing matched
clear_without_early_return(rec, get_ok, put_ok) ==
    IF ~get_ok THEN Result(FALSE, "error", rec, FALSE)
    ELSE WriteBack([rec EXCEPT !.relations = RemoveCollectionRelations(rec.relations)],
                   "removed", put_ok)

clear_dc_relation_collections(rec, get_ok, put_ok) ==
    LET removed_count ==
            Len(IndexesWhere(rec.relations,
                             { t \in Range(rec.relations) : IsCollectionRelation(t) }))
    IN
    IF ~get_ok THEN Result(FALSE, "error", rec, FALSE)
    ELSE IF removed_count = 0 THEN Result(TRUE, "no_match", rec, FALSE)
    ELSE WriteBack([rec EXCEPT !.relations = RemoveCollectionRelations(rec.relations)],
                   "removed", put_ok)

(***************************************************************************)
(* add_grinnell_identifier (Function 7).  Outcomes: "no_dg" (No dg_        *)
(* identifier found), "exists" (Grinnell: identifier already exists),      *)
(* "added" (Added Grinnell:n to record), "error".                          *)
(***************************************************************************)
IsDgIdentifier(t) == HasText(t) /\ StartsWith(t, "dg_")

IsGrinnellIdentifier(t) == HasText(t) /\ ~StartsWith(t, "dg_") /\ StartsWith(t, "Grinnell:")

\* the loop keeps the last dg_ identifier it sees
dg_identifier(identifiers) ==
    LET dgs == IndexesWhere(identifiers, { t \in Range(identifiers) : IsDgIdentifier(t) })
    IN  IF dgs = << >> THEN EmptyText ELSE identifiers[dgs[Len(dgs)]]

grinnell_identifier_exists(identifiers) ==
    \E k \in 1..Len(identifiers) : IsGrinnellIdentifier(identifiers[k])

\* f"Grinnell:{dg_identifier.replace('dg_', '')}"
new_grinnell_id(dg) == Text("Grinnell:", FALSE, FALSE, dg.tail)

add_grinnell_identifier(rec, get_ok, put_ok) ==
    LET dg == dg_identifier(rec.identifiers) IN
    IF ~get_ok THEN Result(FALSE, "error", rec, FALSE)
    ELSE IF ~HasText(dg) THEN Result(TRUE, "no_dg", rec, FALSE)
    ELSE IF grinnell_identifier_exists(rec.identifiers) THEN Result(TRUE, "exists", rec, FALSE)
    ELSE WriteBack([rec EXCEPT !.identifiers = Append(rec.identifiers, new_grinnell_id(dg))],
                   "added", put_ok)

\* the mutation operation of a name
MutationOperation(op, rec, get_ok, put_ok) ==
    CASE op = "replace_author_copyright_rights" ->
            replace_author_copyright_rights(rec, get_ok, put_ok)
      [] op = "clear_dc_relation_collections" ->
            clear_dc_relation_collections(rec, get_ok, put_ok)
      [] op = "add_grinnell_identifier" ->
            add_grinnell_identifier(rec, get_ok, put_ok)

MutationOperations ==
    { "replace_author_copyright_rights", "clear_dc_relation_collections",
      "add_grinnell_identifier" }

\* the outcomes that report a change of the record
ChangingOutcomes == { "replaced", "added", "removed_duplicates", "removed" }

(***************************************************************************)
(* Batch runs.                                                             *)
(***************************************************************************)
\* batch_size = 100 in every chunked run; max_retries = 3 in Function 11
batch_size == 100

max_retries == 3

\* bounds: the largest collection, and the number of faults (failed chunk
\* fetches, progress callbacks that raise, rejected GETs and PUTs) the
\* environment injects into one run
MaxTotal == 237

MaxFaults == 2

\* the runs that slice the collection and call fetch_bib_records_batch per chunk
ChunkedRuns ==
    { "export_to_csv", "export_identifier_csv", "validate_handles_to_csv",
      "export_for_review_csv", "identify_single_tiff_objects",
      "analyze_sound_records_by_decade" }

\* the per-item loops of the Function 2, 6 and 7 handlers
LoopRuns == { "function_2", "function_6", "function_7" }

\* the per-item loops over local files: Functions 14a, 12 (JPG upload), 12 (TIFFs)
FileRuns ==
    { "upload_clientthumb_thumbnails", "add_jpg_representations_from_folder",
      "process_tiffs_for_import" }

\* the runs whose loops test self.kill_switch
PollsKillSwitch(f) ==
    f \in { "validate_handles_to_csv", "export_for_review_csv",
            "identify_single_tiff_objects", "analyze_sound_records_by_decade" }
        \cup LoopRuns \cup FileRuns

\* the counters of all runs, and those that count an item's outcome
Counters ==
    { "success_count", "failed_count", "no_handle_count", "no_rep_count",
      "multi_file_count", "other_format_count", "sound_count", "non_sound_count",
      "no_date_count", "error_count", "replaced_count", "added_count",
      "removed_duplicates_count", "no_change_count", "skipped_count", "total_count",
      "no_identifier_count", "no_thumbnail_count", "no_jpg_count", "no_path_count",
      "processed_count", "updated_count" }

OutcomeCounters == Counters \ { "no_date_count", "total_count", "updated_count" }

ZeroCounters == [c \in Counters |-> 0]

\* counters after the increments incs (a sequence of counter names)
Count(counters, incs) ==
    [c \in Counters |-> counters[c] + Cardinality({ k \in 1..Len(incs) : incs[k] = c })]

\* the number of outcome-counter increments in incs
OutcomeIncs(incs) == Cardinality({ k \in 1..Len(incs) : incs[k] \in OutcomeCounters })

Sum(counters, S) ==
    LET RECURSIVE Add(_)
        Add(T) == IF T = {} THEN 0
                  ELSE LET c == CHOOSE x \in T : TRUE IN counters[c] + Add(T \ {c})
    IN  Add(S)

Min(a, b) == IF a < b THEN a ELSE b

(***************************************************************************)
(* The catalog the runs read.  What the remote services answer for an MMS  *)
(* ID is a function of the ID, so that a collection of consecutive IDs     *)
(* meets every answer the code distinguishes.                              *)
(***************************************************************************)
\* the batch response carries a bib for the requested ID
InCatalog(id) == id % 10 # 3

\* the record has a dc:identifier starting with http://hdl.handle.net/
HasHandle(id) == id % 4 # 2

\* dc:type is "sound"; a 4-digit year is found in dc:date or dcterms:created
IsSound(id) == id % 2 = 1

HasYear(id) == id % 6 # 5

\* the answers of the representations and files endpoints to Function 11:
\*   rep_timeouts   attempts of the representations request that time out
\*   status         status of the representations response
\*   reps           number of representations listed
\*   link           the representation carries a files link
\*   files_timeouts attempts of the first files request that time out
\*   first          status of the first files response
\*   second         the second, unguarded files request: a status, or 0 if it raises
\*   nfiles, tiff   number of files listed; the single file is a TIFF
Rep(rt, st, n, l, ft, f1, f2, nf, tf) ==
    [rep_timeouts |-> rt, status |-> st, reps |-> n, link |-> l, files_timeouts |-> ft,
     first |-> f1, second |-> f2, nfiles |-> nf, tiff |-> tf]

RepAnswers ==
    << Rep(0, 200, 1, TRUE, 0, 200, 200, 1, TRUE),
       Rep(1, 200, 1, TRUE, 1, 200, 200, 1, TRUE),
       Rep(0, 404, 0, FALSE, 0, 200, 200, 0, FALSE),
       Rep(0, 200, 0, FALSE, 0, 200, 200, 0, FALSE),
       Rep(0, 200, 2, TRUE, 0, 200, 200, 1, TRUE),
       Rep(0, 500, 0, FALSE, 0, 200, 200, 0, FALSE),
       Rep(0, 200, 1, TRUE, 0, 200, 200, 1, FALSE),
       Rep(0, 200, 1, TRUE, 0, 200, 200, 2, TRUE),
       Rep(0, 200, 1, FALSE, 0, 200, 200, 0, FALSE),
       Rep(3, 200, 1, TRUE, 0, 200, 200, 1, TRUE),
       Rep(0, 200, 1, TRUE, 3, 200, 0, 1, TRUE),
       Rep(0, 200, 1, TRUE, 3, 200, 200, 1, TRUE),
       Rep(0, 200, 1, TRUE, 3, 200, 500, 1, TRUE),
       Rep(2, 200, 1, TRUE, 2, 500, 200, 1, FALSE),
       Rep(0, 200, 1, TRUE, 0, 200, 500, 1, TRUE),
       Rep(0, 200, 1, TRUE, 0, 200, 0, 1, TRUE) >>

RepAnswer(id) == RepAnswers[(id % Len(RepAnswers)) + 1]

\* the record of an MMS ID as first fetched by the Function 2, 6, 7 loops
RecordOf(id) ==
    CASE id % 8 = 1 ->
            Record(<< Text(pattern_start, FALSE, FALSE, " of the work") >>,
                   << Text(pattern, FALSE, FALSE, "81294713150004641") >>,
                   << Text("dg_", FALSE, FALSE, "1714") >>, TRUE, FALSE)
      [] id % 8 = 2 ->
            Record(<< >>, << Text("Digital Grinnell", FALSE, FALSE, "") >>,
                   << >>, TRUE, FALSE)
      [] id % 8 = 4 ->
            Record(<< new_value, Text(grinnell_pattern_start, FALSE, FALSE, ".") >>,
                   << >>, << Text("dg_", FALSE, FALSE, "2212"),
                             Text("Grinnell:", FALSE, FALSE, "1714") >>, TRUE, FALSE)
      [] id % 8 = 6 ->
            Record(<< >>, << >>, << >>, FALSE, FALSE)
      [] OTHER ->
            Record(<< new_value >>, << >>,
                   << Text("http://hdl.handle.net/", FALSE, FALSE, "11084/1714") >>,
                   TRUE, FALSE)

(***************************************************************************)
(* fetch_bib_records_batch: the keys of the dict it returns.  response is  *)
(* the answer of the GET: its status (0: the request raised) and the MMS   *)
(* IDs of the bibs it carries.                                             *)
(***************************************************************************)
\* a bib of the response without mms_id
NoMmsId == 0

fetch_bib_records_batch(mms_ids, response) ==
    IF mms_ids = << >> THEN {}
    ELSE IF response.status # 200 THEN {}
    ELSE { mms_id \in response.bibs : mms_id # NoMmsId }

\* the answers of the catalog to a batch request: the bibs of the requested
\* IDs it holds, or a failure
BatchResponses(mms_ids) ==
    LET asked == SubSeq(mms_ids, 1, Min(Len(mms_ids), 100))
    IN  [ok |-> [status |-> 200, bibs |-> { id \in Range(asked) : InCatalog(id) }],
         failed |-> [status |-> 500, bibs |-> {}],
         raised |-> [status |-> 0, bibs |-> {}]]

(***************************************************************************)
(* The body of the inner loop, per run: what processing one item does.     *)
(* An effect lists the counters incremented, in order, whether a row is    *)
(* written, and whether the progress callback is reached.                  *)
(***************************************************************************)
Effect(incs, row, cb) == [incs |-> incs, row |-> row, callback |-> cb]

\* the block after the try: of export_to_csv and export_identifier_csv
export_item(mms_id, batch_records) ==
    IF mms_id \in batch_records
    THEN Effect(<< "success_count" >>, TRUE, TRUE)
    ELSE Effect(<< "failed_count" >>, FALSE, TRUE)

\* validate_handles_to_csv: the handle test catches its own exceptions, so a
\* record with a handle always gets its row
validate_item(mms_id, batch_records) ==
    IF mms_id \in batch_records
    THEN IF HasHandle(mms_id)
         THEN Effect(<< "success_count" >>, TRUE, TRUE)
         ELSE Effect(<< "no_handle_count" >>, FALSE, TRUE)
    ELSE Effect(<< "failed_count" >>, FALSE, TRUE)

\* export_for_review_csv: every fetched record gets a row
review_item(mms_id, batch_records) ==
    IF mms_id \in batch_records
    THEN IF HasHandle(mms_id)
         THEN Effect(<< "success_count" >>, TRUE, TRUE)
         ELSE Effect(<< "no_handle_count" >>, TRUE, TRUE)
    ELSE Effect(<< "failed_count" >>, FALSE, TRUE)

\* analyze_sound_records_by_decade
sound_item(mms_id, batch_records) ==
    IF mms_id \in batch_records
    THEN IF IsSound(mms_id)
         THEN IF HasYear(mms_id)
              THEN Effect(<< "sound_count" >>, TRUE, TRUE)
              ELSE Effect(<< "no_date_count", "sound_count" >>, TRUE, TRUE)
         ELSE Effect(<< "non_sound_count" >>, FALSE, TRUE)
    ELSE Effect(<< "failed_count" >>, FALSE, TRUE)

\* identify_single_tiff_objects, after the files link was found: the retry
\* loop of the first files request, the second request, the file checks
tiff_files(a) ==
    LET exhausted == a.files_timeouts >= max_retries
        retry == IF exhausted THEN << "failed_count" >> ELSE << >>
        first_files == IF ~exhausted /\ a.first = 200 THEN a.nfiles ELSE 0
        files == IF a.second = 200 THEN a.nfiles ELSE first_files
    IN  IF a.second = 0 THEN Effect(retry \o << "failed_count" >>, FALSE, FALSE)
        ELSE IF files # 1 THEN Effect(retry \o << "multi_file_count" >>, FALSE, FALSE)
        ELSE IF a.tiff THEN Effect(retry \o << "success_count" >>, TRUE, TRUE)
        ELSE Effect(retry \o << "other_format_count" >>, FALSE, TRUE)

\* the attempts of the two remote calls of one item, in order, each with
\* what it got: "timeout" (a timeout or transport error), "response" or
\* "raised" (an exception that no retry loop catches)
NoRequests == [representations |-> << >>, files |-> << >>]

Attempts(timeouts) ==
    [k \in 1..Min(timeouts, max_retries) |-> "timeout"]
        \o (IF timeouts < max_retries THEN << "response" >> ELSE << >>)

identify_requests(mms_id, batch_records) ==
    LET a == RepAnswer(mms_id)
        second == IF a.second = 0 THEN "raised" ELSE "response"
    IN  IF mms_id \notin batch_records THEN NoRequests
        ELSE IF a.rep_timeouts >= max_retries \/ a.status # 200 \/ a.reps # 1 \/ ~a.link
             THEN [representations |-> Attempts(a.rep_timeouts), files |-> << >>]
        ELSE [representations |-> Attempts(a.rep_timeouts),
              files |-> Attempts(a.files_timeouts) \o << second >>]

identify_item(mms_id, batch_records) ==
    LET a == RepAnswer(mms_id) IN
    IF mms_id \notin batch_records THEN Effect(<< "failed_count" >>, FALSE, FALSE)
    ELSE IF a.rep_timeouts >= max_retries THEN Effect(<< "failed_count" >>, FALSE, FALSE)
    ELSE IF a.status = 200 THEN
        IF a.reps = 0 THEN Effect(<< "no_rep_count" >>, FALSE, FALSE)
        ELSE IF a.reps # 1 THEN Effect(<< "multi_file_count" >>, FALSE, FALSE)
        ELSE IF ~a.link THEN Effect(<< "multi_file_count" >>, FALSE, FALSE)
        ELSE tiff_files(a)
    ELSE IF a.status = 404 THEN Effect(<< "no_rep_count" >>, FALSE, TRUE)
    ELSE Effect(<< "failed_count" >>, FALSE, TRUE)

ItemEffect(f, mms_id, batch_records) ==
    CASE f \in { "export_to_csv", "export_identifier_csv" } ->
            export_item(mms_id, batch_records)
      [] f = "validate_handles_to_csv" -> validate_item(mms_id, batch_records)
      [] f = "export_for_review_csv" -> review_item(mms_id, batch_records)
      [] f = "analyze_sound_records_by_decade" -> sound_item(mms_id, batch_records)
      [] f = "identify_single_tiff_objects" -> identify_item(mms_id, batch_records)

\* the end of the try block: progress_callback(record_index, total), and the
\* except clause that counts the item as failed if the callback raises
AfterCallback(effect, raises) ==
    IF effect.callback /\ raises
    THEN [effect EXCEPT !.incs = effect.incs \o << "failed_count" >>]
    ELSE effect

\* the counter a Function 2, 6, 7 loop increments for the result of its operation
LoopCounter(f, res) ==
    CASE f = "function_2" ->
            IF res.success THEN << "success_count" >> ELSE << "error_count" >>
      [] f = "function_6" ->
            IF ~res.success THEN << "error_count" >>
            ELSE IF res.outcome = "replaced" THEN << "replaced_count" >>
            ELSE IF res.outcome = "added" THEN << "added_count" >>
            ELSE IF res.outcome = "removed_duplicates" THEN << "removed_duplicates_count" >>
            ELSE IF res.outcome = "no_change" THEN << "no_change_count" >>
            ELSE << >>
      [] f = "function_7" ->
            IF ~res.success THEN << "error_count" >>
            ELSE IF res.outcome \in { "exists", "no_dg" } THEN << "skipped_count" >>
            ELSE << "success_count" >>

LoopOperation(f) ==
    CASE f = "function_2" -> "clear_dc_relation_collections"
      [] f = "function_6" -> "replace_author_copyright_rights"
      [] f = "function_7" -> "add_grinnell_identifier"

(***************************************************************************)
(* The body of the loop of a file run.  What the catalog and the local     *)
(* folder answer for an MMS ID is a function of the ID.  An answer names   *)
(* the counters incremented, whether a row is collected, and whether the   *)
(* body reaches a call outside any try block of the loop: stat() on the    *)
(* matched thumbnail (upload_clientthumb_thumbnails), requests.get of the  *)
(* representations (add_jpg_representations_from_folder).                  *)
(***************************************************************************)
FileAnswer(incs, row, bare) == [incs |-> incs, row |-> row, bare_call |-> bare]

\* fetch fails; no usable dc:identifier; no thumbnail file; prepared or not
thumbnail_item(mms_id) ==
    CASE mms_id % 8 = 0 -> FileAnswer(<< "failed_count" >>, FALSE, FALSE)
      [] mms_id % 8 = 2 -> FileAnswer(<< "no_identifier_count" >>, FALSE, FALSE)
      [] mms_id % 8 = 4 -> FileAnswer(<< "no_thumbnail_count" >>, FALSE, FALSE)
      [] mms_id % 8 = 6 -> FileAnswer(<< "failed_count" >>, FALSE, TRUE)
      [] OTHER -> FileAnswer(<< "success_count" >>, TRUE, TRUE)

\* representations not 200; no TIFF listed; no JPG in the folder; uploaded or not
jpg_item(mms_id) ==
    CASE mms_id % 8 = 0 -> FileAnswer(<< "failed_count" >>, FALSE, TRUE)
      [] mms_id % 8 = 2 -> FileAnswer(<< "no_rep_count" >>, FALSE, TRUE)
      [] mms_id % 8 = 4 -> FileAnswer(<< "no_jpg_count" >>, FALSE, TRUE)
      [] mms_id % 8 = 6 -> FileAnswer(<< "failed_count" >>, FALSE, TRUE)
      [] OTHER -> FileAnswer(<< "success_count" >>, FALSE, TRUE)

\* no local path; source missing; copy or conversion fails (both caught per
\* item); the row of the export CSV is updated
tiff_item(mms_id) ==
    CASE mms_id % 8 = 0 -> FileAnswer(<< "no_path_count" >>, FALSE, FALSE)
      [] mms_id % 8 = 2 -> FileAnswer(<< "failed_count" >>, FALSE, FALSE)
      [] mms_id % 8 = 4 -> FileAnswer(<< "failed_count" >>, FALSE, FALSE)
      [] mms_id % 8 = 6 -> FileAnswer(<< "failed_count" >>, FALSE, FALSE)
      [] OTHER -> FileAnswer(<< "updated_count", "processed_count" >>, TRUE, FALSE)

FileItem(f, mms_id) ==
    CASE f = "upload_clientthumb_thumbnails" -> thumbnail_item(mms_id)
      [] f = "add_jpg_representations_from_folder" -> jpg_item(mms_id)
      [] f = "process_tiffs_for_import" -> tiff_item(mms_id)

(***************************************************************************)
(* State.                                                                  *)
(***************************************************************************)
VARIABLES
    store,          \* remote catalog: MMS ID -> record, where it differs from RecordOf
    m_op,           \* SpecMutation: the operation under test ("" under Spec)
    m_log,          \* SpecMutation: the applications made so far, oldest first
    set_members,    \* editor.set_members: the loaded collection
    limit_input,    \* the limit field of the window, as an integer
    kill_switch,    \* editor.kill_switch
    func,           \* the run in progress or finished ("" before the first)
    pc,             \* "idle", "chunk" (outer loop header), "item" (inner loop
                    \* header), "in_flight" (loop body), "done"
    mms_ids,        \* the collection the run iterates
    batch_start,    \* loop variable of the outer loop
    i,              \* items of the current chunk (of the loop) already taken
    batch_records,  \* keys of the dict returned by fetch_bib_records_batch
    counters,       \* the run's counters
    all_rows,       \* rows collected in memory (export_for_review_csv)
    csv_rows,       \* rows in the output file, by MMS ID, in file order
    summary,        \* what the run reports when it ends
    fetch_calls,    \* history: the argument of every fetch_bib_records_batch call
    http_gets,      \* history: GET requests issued for the current chunk
    chunk_base,     \* history: failed_count and rows when the chunk was fetched
    item_incs,      \* history: outcome counters incremented by the last item
    item_requests,  \* history: remote calls attempted by the last item
    items_started,  \* history: items whose loop body was entered
    broke,          \* history: the loop was left through a kill switch test
    killed_at,      \* history: where a run that tests the kill switch was when it was set
    last_call,      \* history: the last operation call of a Function 2, 6, 7 loop
    aborted,        \* history: what raised into the except clause around the loop
                    \* ("": nothing, "callback", "call")
    faults,         \* faults injected so far
    remote_set,     \* SpecLoad: the members of the remote set / the IDs of the CSV
                    \* file, in order, and the total the set API reports
    load_pc,        \* SpecLoad: "idle", "paging" (in the while loop of
                    \* fetch_set_members), "fetched", "loaded", "failed"
    max_members,    \* argument of fetch_set_members
    offset,         \* fetch_set_members: offset of the next page request
    all_members,    \* fetch_set_members: identifiers accumulated
    total_records,  \* fetch_set_members: total used for progress and paging
    load_result,    \* what fetch_set_members / load_mms_ids_from_csv returned
    page_requests,  \* history: the offsets requested, in order
    progress_calls, \* history: the arguments of every progress callback
    called,         \* the helper function called on its own, "" for none
    arguments,      \* the arguments of that call
    returned,       \* what the call returned
    set_info,       \* editor.set_info: what the loaded collection came from
    current_record, \* editor.current_record, by the MMS ID of the record it holds
    clicks,         \* history: the handlers started so far besides the run
    started_on      \* history: editor.set_members when the handler of the run started

mutation_vars == << m_op, m_log >>

editor_vars == << set_members, limit_input, kill_switch >>

run_vars ==
    << func, pc, mms_ids, batch_start, i, batch_records, counters, all_rows,
       csv_rows, summary >>

history_vars ==
    << fetch_calls, http_gets, chunk_base, item_incs, item_requests, items_started, broke,
       killed_at, last_call, aborted, faults >>

paging_vars ==
    << remote_set, load_pc, max_members, offset, all_members, total_records,
       load_result, page_requests >>

load_vars == << paging_vars, progress_calls >>

call_vars == << called, arguments, returned >>

handler_vars == << set_info, current_record, clicks, started_on >>

vars ==
    << store, mutation_vars, editor_vars, run_vars, history_vars, load_vars,
       call_vars, handler_vars >>

NotReported == -1

NoSummary == [status |-> "none", skipped |-> NotReported]

NoKill == [k |-> -1, in_flight |-> FALSE, running |-> FALSE]

NoCall == [made |-> FALSE, get_ok |-> TRUE, put_ok |-> TRUE, put |-> FALSE,
           success |-> TRUE, outcome |-> ""]

NoResult == [success |-> FALSE, message |-> "", members |-> << >>]

\* set_info is None; current_record is None
NoSetInfo == [name |-> "", source |-> ""]

NoRecord == 0

\* set_info after fetch_set_details (the set data) or load_mms_ids_from_csv
SetInfo(name, source) == [name |-> name, source |-> source]

\* nothing is being loaded
NoLoad ==
    /\ remote_set = [members |-> << >>, total |-> 0]
    /\ load_pc = "idle"
    /\ max_members = 0 /\ offset = 0 /\ all_members = << >> /\ total_records = 0
    /\ load_result = NoResult
    /\ page_requests = << >> /\ progress_calls = << >>
    /\ called = "" /\ arguments = << >> /\ returned = << >>
    /\ set_info = NoSetInfo /\ current_record = NoRecord /\ clicks = 0
    /\ started_on = << >>

\* the state of the editor and of the run variables before any run
NoRun ==
    /\ kill_switch = FALSE
    /\ func = "" /\ pc = "idle" /\ mms_ids = << >>
    /\ batch_start = 0 /\ i = 0 /\ batch_records = {}
    /\ counters = ZeroCounters
    /\ all_rows = << >> /\ csv_rows = << >>
    /\ summary = NoSummary
    /\ fetch_calls = << >> /\ http_gets = 0
    /\ chunk_base = [failed |-> 0, rows |-> 0, status |-> 200]
    /\ item_incs = 0 /\ item_requests = NoRequests /\ items_started = 0 /\ broke = FALSE
    /\ killed_at = NoKill /\ last_call = NoCall /\ aborted = "" /\ faults = 0

\* bounds of SpecMutation
MaxOccurrences == 3

MaxApplications == 2

\* all sequences over S of length at most n
SeqUpTo(S, n) == UNION { [1..k -> S] : k \in 0..n }

\* the records SpecMutation starts from: every combination of texts in the
\* field the operation edits, with and without a findable dc_parent
MutationRecords(op) ==
    CASE op = "replace_author_copyright_rights" ->
            { Record(r, << >>, << >>, o, a) :
                r \in SeqUpTo(RightsTexts, MaxOccurrences), o \in BOOLEAN, a \in BOOLEAN }
      [] op = "clear_dc_relation_collections" ->
            { Record(<< >>, l, << >>, TRUE, FALSE) :
                l \in SeqUpTo(RelationTexts, MaxOccurrences) }
      [] op = "add_grinnell_identifier" ->
            { Record(<< >>, << >>, d, TRUE, FALSE) :
                d \in SeqUpTo(IdentifierTexts, MaxOccurrences) }

\* the MMS ID SpecMutation edits
TestMmsId == 1

MutationInit ==
    /\ m_op \in MutationOperations
    /\ store \in { (TestMmsId :> rec) : rec \in MutationRecords(m_op) }
    /\ m_log = << >>
    /\ set_members = << >> /\ limit_input = 0
    /\ NoRun /\ NoLoad

\* one call of the operation on the record of the store: GET, edit, PUT.
\* The store takes the document of an accepted PUT.  put_ok is an input only
\* of a call that issues a PUT.
Apply ==
    /\ Len(m_log) < MaxApplications
    /\ \E get_ok \in BOOLEAN, put_ok \in BOOLEAN :
         LET before == store[TestMmsId]
             res == MutationOperation(m_op, before, get_ok, put_ok)
             after == IF res.put /\ put_ok THEN res.doc ELSE before
         IN  /\ ~get_ok => put_ok
             /\ ~put_ok => res.put
             /\ store' = [store EXCEPT ![TestMmsId] = after]
             /\ m_log' = Append(m_log, [before |-> before, get_ok |-> get_ok,
                                        put_ok |-> put_ok, res |-> res, after |-> after])
    /\ UNCHANGED << call_vars, handler_vars, m_op, editor_vars, run_vars, history_vars, load_vars >>

MutationNext == Apply

SpecMutation == MutationInit /\ [][MutationNext]_vars

(***************************************************************************)
(* Claims about the mutation operations (checked under SpecMutation).      *)
(***************************************************************************)
\* an application that ran to the end: fetched, edited, and its PUT, if any, accepted
Accepted(e) == e.get_ok /\ e.res.success

\* C9: applying a mutation operation twice in succession to the same record,
\* both applications accepted by the store, reports a changing outcome at most
\* on the first application; the second reports no change, issues no PUT and
\* leaves the record as the first application left it.
C9_Idempotent ==
    \A k \in 1..(Len(m_log) - 1) :
        (Accepted(m_log[k]) /\ Accepted(m_log[k + 1]))
            => /\ m_log[k + 1].res.outcome \notin ChangingOutcomes
               /\ ~m_log[k + 1].res.put
               /\ m_log[k + 1].after = m_log[k].after

\* a first application that changed the record, followed by an accepted second one
C9_Witness ==
    /\ Len(m_log) = 2
    /\ Accepted(m_log[1]) /\ Accepted(m_log[2])
    /\ m_log[1].res.outcome = "replaced"
    /\ Len(m_log[1].before.rights) = 3
    /\ m_log[1].after # m_log[1].before

IsLegacy(t) == IsAuthorCopyright(t) \/ IsGrinnellCopyright(t) \/ IsOldLink(t)

\* the legacy-pattern occurrences in document order
LegacyIndexes(rights) == IndexesWhere(rights, { t \in Range(rights) : IsLegacy(t) })

\* the occurrence the replace branch rewrites: the first author-copyright
\* occurrence, else the first Grinnell-copyright one, else the first old link
FirstByClass(rights) ==
    LET au == IndexesWhere(rights, { t \in Range(rights) : IsAuthorCopyright(t) })
        gr == IndexesWhere(rights, { t \in Range(rights) : IsGrinnellCopyright(t) })
        ol == IndexesWhere(rights, { t \in Range(rights) : IsOldLink(t) })
    IN  IF au # << >> THEN au[1] ELSE IF gr # << >> THEN gr[1] ELSE ol[1]

\* the classification of a record: first is the occurrence rewritten by
\* "replaced", can_add whether "added" is possible
Classified(rec, first, can_add) ==
    LET rights == rec.rights
        legacy == LegacyIndexes(rights)
    IN  IF new_value \in Range(rights) THEN
            IF legacy # << >>
            THEN [outcome |-> "removed_duplicates",
                  rights |-> RemoveAt(rights, Range(legacy))]
            ELSE [outcome |-> "no_change", rights |-> rights]
        ELSE IF legacy # << >> THEN
            [outcome |-> "replaced",
             rights |-> RemoveAt([rights EXCEPT ![first] = new_value],
                                 Range(legacy) \ {first})]
        ELSE IF rights = << >> THEN
            IF can_add THEN [outcome |-> "added", rights |-> << new_value >>]
            ELSE [outcome |-> "error", rights |-> rights]
        ELSE [outcome |-> "no_change", rights |-> rights]

\* the applications of replace_author_copyright_rights whose fetch succeeded
\* and whose PUT, if one was issued, was accepted
RightsApplications ==
    { k \in 1..Len(m_log) :
        /\ m_op = "replace_author_copyright_rights"
        /\ m_log[k].get_ok
        /\ (m_log[k].res.put => m_log[k].put_ok) }

\* C10 as stated: target present -> all legacy occurrences removed
\* (duplicates-removed, or no-op when there are none); else legacy occurrences
\* exist -> the first one (in the record) rewritten, the rest deleted
\* (replaced); else no dc:rights at all -> one appended (added); else no-op.
C10_AsStated ==
    \A k \in RightsApplications :
        LET e == m_log[k]
            legacy == LegacyIndexes(e.before.rights)
            c == Classified(e.before, IF legacy # << >> THEN legacy[1] ELSE 0, TRUE)
        IN  e.res.outcome = c.outcome /\ e.after.rights = c.rights

\* C10 amended: as stated, except that "replaced" rewrites the first
\* author-copyright occurrence (else the first Grinnell-copyright one, else
\* the first old link), and that a record with no dc:rights gets "added" only
\* if a parent for the new element is found, and "error" otherwise.
C10_Classification ==
    \A k \in RightsApplications :
        LET e == m_log[k]
            legacy == LegacyIndexes(e.before.rights)
            c == Classified(e.before,
                            IF legacy # << >> THEN FirstByClass(e.before.rights) ELSE 0,
                            dc_parent_found(e.before))
        IN  /\ e.res.outcome = c.outcome
            /\ e.after.rights = c.rights
            /\ e.res.success = (c.outcome # "error")

\* a record with an unrelated occurrence between a Grinnell-copyright and an
\* author-copyright occurrence was classified "replaced"
C10_Witness ==
    \E k \in RightsApplications :
        /\ m_log[k].res.outcome = "replaced"
        /\ Len(m_log[k].before.rights) = 3
        /\ IsGrinnellCopyright(m_log[k].before.rights[1])
        /\ ~IsLegacy(m_log[k].before.rights[2])
        /\ IsAuthorCopyright(m_log[k].before.rights[3])

(***************************************************************************)
(* The batch runs (Spec).                                                  *)
(***************************************************************************)
\* the collections a run is started on: MMS IDs n, n-1, ..., 1
Sizes == { 1, 2, batch_size, batch_size + 1, MaxTotal }

Collection(n) == [k \in 1..n |-> n + 1 - k]

\* values of the limit field
Limits == { -1, 0, 2 }

Init ==
    /\ store = << >>
    /\ m_op = "" /\ m_log = << >>
    /\ set_members \in { Collection(n) : n \in Sizes }
    /\ limit_input = 0
    /\ NoRun /\ NoLoad

total == Len(mms_ids)

\* total_batches = (total + batch_size - 1) // batch_size
total_batches(n) == (n + batch_size - 1) \div batch_size

\* batch_end = min(batch_start + batch_size, total)
batch_end(start, n) == Min(start + batch_size, n)

\* variant: the slice taken from its last identifier to its first
batch_ids_reversed(ids, start) ==
    LET last == batch_end(start, Len(ids))
    IN  [k \in 1..(last - start) |-> ids[last + 1 - k]]

\* batch_ids = mms_ids[batch_start:batch_end]
batch_ids(ids, start) == SubSeq(ids, start + 1, batch_end(start, Len(ids)))

\* variant: the next slice starts on the last identifier of this one
next_batch_start_overlapping(start) == start + batch_size - 1

\* range(0, total, batch_size): the value after start
next_batch_start(start) == start + batch_size

\* where the run's loops test kill_switch: at the outer loop header, at the
\* inner loop header (variant: no run tests it at the outer loop header)
ChecksAtItemOnly(f) == f \in LoopRuns

ChecksAtChunk(f) == PollsKillSwitch(f)

ChecksAtItem(f) == PollsKillSwitch(f)

\* the record the catalog holds for an MMS ID
StoreRecord(id) == IF id \in DOMAIN store THEN store[id] ELSE RecordOf(id)

\* items whose loop body has ended
ItemsDone == IF pc = "in_flight" THEN items_started - 1 ELSE items_started

Running == pc \in { "chunk", "item", "in_flight" }

\* the header line of an output file (writeheader, writerow(column_headings))
column_headings == 0

\* the runs that write the header when the file is opened, before the loop
HeaderAtOpen(f) == f \in ChunkedRuns \ { "export_for_review_csv" }

\* a variant of the sort that leaves the rows in the order they were collected
Unsorted(rows) == rows

\* all_rows.sort(key=lambda x: x["MMS ID"]): MMS IDs are digit strings of one
\* length and distinct within a collection, so the sorted rows are the row
\* IDs in ascending order
SortByMmsId(rows) ==
    LET ids == Range(rows)
        RECURSIVE Ascending(_, _)
        Ascending(lo, hi) ==
            IF lo > hi THEN << >>
            ELSE IF lo = hi THEN (IF lo \in ids THEN << lo >> ELSE << >>)
            ELSE LET mid == (lo + hi) \div 2
                 IN  Ascending(lo, mid) \o Ascending(mid + 1, hi)
    IN  Ascending(1, MaxTotal + 1)

\* the members a Function 2, 6, 7 loop iterates
members_to_process(f, members, limit) ==
    IF f = "function_2"
    THEN IF limit > 0 /\ limit < Len(members) THEN SubSeq(members, 1, limit) ELSE members
    ELSE LET lim == IF limit < 0 THEN 0 ELSE limit
             process_count == IF lim > 0 THEN Min(lim, Len(members)) ELSE Len(members)
         IN  SubSeq(members, 1, process_count)

\* the items at which the environment may inject a fault (a progress
\* callback that raises, a rejected GET or PUT)
FaultPoint(mms_id) == mms_id % 64 = 1

\* a handler starts its run on the loaded collection; the Function 2, 6, 7
\* handlers read the limit field
StartRun(f) ==
    /\ pc = "idle"
    /\ set_members # << >>
    /\ func' = f
    /\ \E limit \in Limits :
         /\ f \notin LoopRuns => limit = limit_input
         /\ limit_input' = limit
         /\ mms_ids' = IF f \in LoopRuns
                       THEN members_to_process(f, set_members, limit)
                       ELSE set_members
    /\ pc' = IF f \in ChunkedRuns THEN "chunk" ELSE "item"
    /\ kill_switch' = IF f = "function_2" THEN FALSE ELSE kill_switch
    /\ killed_at' = IF f = "function_2" THEN NoKill ELSE killed_at
    /\ batch_start' = 0 /\ i' = 0 /\ batch_records' = {}
    /\ counters' = ZeroCounters
    /\ all_rows' = << >>
    /\ csv_rows' = IF HeaderAtOpen(f) THEN << column_headings >> ELSE << >>
    /\ summary' = NoSummary
    /\ fetch_calls' = << >> /\ http_gets' = 0
    /\ chunk_base' = [failed |-> 0, rows |-> 0, status |-> 200]
    /\ item_incs' = 0 /\ item_requests' = NoRequests /\ items_started' = 0 /\ broke' = FALSE
    /\ last_call' = NoCall
    /\ aborted' = ""
    /\ faults' = 0
    /\ UNCHANGED << load_vars, store, call_vars, handler_vars, mutation_vars, set_members >>

\* the code after the outer loop of a chunked run: the deferred sink writes
\* its sorted rows, and the run returns (True, "... complete: ...")
FinishChunked(by_kill) ==
    /\ pc' = "done"
    /\ broke' = (broke \/ by_kill)
    /\ csv_rows' = IF func = "export_for_review_csv"
                   THEN << column_headings >> \o SortByMmsId(all_rows)
                   ELSE csv_rows
    /\ summary' = [status |-> "complete", skipped |-> NotReported]
    /\ UNCHANGED << load_vars, store, call_vars, handler_vars, mutation_vars, editor_vars, func, mms_ids, batch_start, i,
                    batch_records, counters, all_rows, fetch_calls, http_gets,
                    chunk_base, item_incs, item_requests, items_started, killed_at, last_call, aborted, faults >>

\* one chunk is fetched: one GET, whatever it answers
FetchChunk ==
    \E kind \in { "ok", "failed", "raised" } :
        LET ids == batch_ids(mms_ids, batch_start)
            response == BatchResponses(ids)[kind]
        IN  /\ kind # "ok" => faults < MaxFaults
            /\ faults' = IF kind # "ok" THEN faults + 1 ELSE faults
            /\ batch_records' = fetch_bib_records_batch(ids, response)
            /\ fetch_calls' = Append(fetch_calls, ids)
            /\ http_gets' = 1
            /\ chunk_base' = [failed |-> counters["failed_count"],
                              rows |-> Len(csv_rows) + Len(all_rows),
                              status |-> response.status]
            /\ i' = 0
            /\ pc' = "item"
            /\ UNCHANGED << load_vars, store, call_vars, handler_vars, mutation_vars, editor_vars, func, mms_ids,
                            batch_start, counters, all_rows, csv_rows, summary,
                            item_incs, item_requests, items_started, broke, killed_at, last_call, aborted >>

\* the header of the outer loop: range exhausted, kill switch test, fetch
ChunkHeader ==
    /\ pc = "chunk" /\ func \in ChunkedRuns
    /\ IF batch_start >= total THEN FinishChunked(FALSE)
       ELSE IF ChecksAtChunk(func) /\ kill_switch THEN FinishChunked(TRUE)
       ELSE FetchChunk

\* the header of the inner loop: chunk exhausted, kill switch test (break
\* leaves the inner loop only), or the next item is taken
ItemHeader ==
    /\ pc = "item" /\ func \in ChunkedRuns
    /\ LET exhausted == i >= Len(batch_ids(mms_ids, batch_start))
           stop == ~exhausted /\ ChecksAtItem(func) /\ kill_switch
       IN  IF exhausted \/ stop
           THEN /\ pc' = "chunk"
                /\ batch_start' = next_batch_start(batch_start)
                /\ broke' = (broke \/ stop)
                /\ UNCHANGED << item_incs, item_requests, items_started >>
           ELSE /\ pc' = "in_flight"
                /\ items_started' = items_started + 1
                /\ item_incs' = 0 /\ item_requests' = NoRequests
                /\ UNCHANGED << batch_start, broke >>
    /\ UNCHANGED << load_vars, store, call_vars, handler_vars, mutation_vars, editor_vars, func, mms_ids, i, batch_records,
                    counters, all_rows, csv_rows, summary, fetch_calls, http_gets,
                    chunk_base, killed_at, last_call, aborted, faults >>

\* the body of the inner loop for mms_id = batch_ids[i]
ItemBody ==
    /\ pc = "in_flight" /\ func \in ChunkedRuns
    /\ \E raises \in BOOLEAN :
         LET mms_id == batch_ids(mms_ids, batch_start)[i + 1]
             reached == ItemEffect(func, mms_id, batch_records)
             effect == AfterCallback(reached, raises)
         IN  /\ raises => (reached.callback /\ FaultPoint(mms_id) /\ faults < MaxFaults)
             /\ faults' = IF raises THEN faults + 1 ELSE faults
             /\ counters' = Count(counters, effect.incs)
             /\ item_incs' = OutcomeIncs(effect.incs)
             /\ item_requests' = IF func = "identify_single_tiff_objects"
                                  THEN identify_requests(mms_id, batch_records)
                                  ELSE NoRequests
             /\ all_rows' = IF effect.row /\ func = "export_for_review_csv"
                            THEN Append(all_rows, mms_id) ELSE all_rows
             /\ csv_rows' = IF effect.row /\ func # "export_for_review_csv"
                            THEN Append(csv_rows, mms_id) ELSE csv_rows
             /\ progress_calls' =
                    IF reached.callback
                    THEN Append(progress_calls, << batch_start + i + 1, total >>)
                    ELSE progress_calls
    /\ i' = i + 1
    /\ pc' = "item"
    /\ UNCHANGED << paging_vars, store, call_vars, handler_vars, mutation_vars, editor_vars, func, mms_ids, batch_start,
                    batch_records, summary, fetch_calls, http_gets, chunk_base,
                    items_started, broke, killed_at, last_call, aborted >>

\* the header of a Function 2, 6, 7 loop
LoopHeader ==
    /\ pc = "item" /\ func \in LoopRuns
    /\ IF i >= total THEN
            /\ pc' = "done"
            /\ summary' = [status |-> "complete", skipped |-> NotReported]
            /\ UNCHANGED << kill_switch, counters, items_started, item_incs, item_requests, broke >>
       ELSE IF kill_switch THEN
            /\ pc' = "done"
            /\ broke' = TRUE
            /\ summary' = IF func = "function_2"
                          THEN [status |-> "stopped", skipped |-> total - (i + 1) + 1]
                          ELSE [status |-> "complete", skipped |-> NotReported]
            /\ kill_switch' = IF func = "function_2" THEN FALSE ELSE kill_switch
            /\ UNCHANGED << counters, items_started, item_incs, item_requests >>
       ELSE /\ pc' = "in_flight"
            /\ items_started' = items_started + 1
            /\ item_incs' = 0 /\ item_requests' = NoRequests
            /\ counters' = IF func = "function_6"
                           THEN Count(counters, << "total_count" >>) ELSE counters
            /\ UNCHANGED << kill_switch, summary, broke >>
    /\ UNCHANGED << load_vars, store, call_vars, handler_vars, mutation_vars, set_members, limit_input, func, mms_ids,
                    batch_start, i, batch_records, all_rows, csv_rows, fetch_calls,
                    http_gets, chunk_base, killed_at, last_call, aborted, faults >>

\* the body of a Function 2, 6, 7 loop: the operation on the next member
LoopBody ==
    /\ pc = "in_flight" /\ func \in LoopRuns
    /\ \E get_ok \in BOOLEAN, put_ok \in BOOLEAN :
         LET mms_id == mms_ids[i + 1]
             res == MutationOperation(LoopOperation(func), StoreRecord(mms_id),
                                      get_ok, put_ok)
             injected == ~get_ok \/ (res.put /\ ~put_ok)
         IN  /\ ~get_ok => put_ok
             /\ ~put_ok => res.put
             /\ injected => (FaultPoint(mms_id) /\ faults < MaxFaults)
             /\ faults' = IF injected THEN faults + 1 ELSE faults
             /\ last_call' = [made |-> TRUE, get_ok |-> get_ok, put_ok |-> put_ok,
                              put |-> res.put, success |-> res.success,
                              outcome |-> res.outcome]
             /\ store' = IF res.put /\ put_ok
                         THEN [k \in DOMAIN store \cup {mms_id} |->
                                 IF k = mms_id THEN res.doc ELSE store[k]]
                         ELSE store
             /\ counters' = Count(counters, LoopCounter(func, res))
             /\ item_incs' = OutcomeIncs(LoopCounter(func, res)) /\ item_requests' = NoRequests
    /\ i' = i + 1
    /\ pc' = "item"
    /\ UNCHANGED << load_vars, call_vars, handler_vars, mutation_vars, editor_vars, func, mms_ids, batch_start,
                    batch_records, all_rows, csv_rows, summary, fetch_calls, http_gets,
                    chunk_base, items_started, broke, killed_at, aborted >>

\* the header of the loop of a file run; after the loop the collected rows
\* are written and the run returns (True, "... complete: ...")
FileHeader ==
    /\ pc = "item" /\ func \in FileRuns
    /\ IF i >= total \/ kill_switch
       THEN /\ pc' = "done"
            /\ broke' = (i < total)
            /\ csv_rows' = IF all_rows # << >> THEN << column_headings >> \o all_rows
                           ELSE << >>
            /\ summary' = [status |-> "complete", skipped |-> NotReported]
            /\ UNCHANGED << items_started, item_incs, item_requests >>
       ELSE /\ pc' = "in_flight"
            /\ items_started' = items_started + 1
            /\ item_incs' = 0 /\ item_requests' = NoRequests
            /\ UNCHANGED << csv_rows, summary, broke >>
    /\ UNCHANGED << load_vars, store, call_vars, handler_vars, mutation_vars, editor_vars, func, mms_ids, batch_start, i,
                    batch_records, counters, all_rows, fetch_calls, http_gets,
                    chunk_base, killed_at, last_call, aborted, faults >>

\* the body of the loop of a file run: progress_callback(idx, total), then
\* the item.  An exception of the callback or of a call outside the try
\* blocks of the body reaches the except clause around the loop, which
\* returns (False, "Error ...").
FileBody ==
    /\ pc = "in_flight" /\ func \in FileRuns
    /\ \E raised \in { "", "callback", "call" } :
         LET mms_id == mms_ids[i + 1]
             answer == FileItem(func, mms_id)
         IN  /\ raised # "" => (FaultPoint(mms_id) /\ faults < MaxFaults)
             /\ raised = "call" => answer.bare_call
             /\ faults' = IF raised # "" THEN faults + 1 ELSE faults
             /\ aborted' = raised
             /\ progress_calls' = Append(progress_calls, << i + 1, total >>)
             /\ IF raised # ""
                THEN /\ pc' = "done"
                     /\ summary' = [status |-> "failed", skipped |-> NotReported]
                     /\ UNCHANGED << i, counters, item_incs, item_requests, all_rows >>
                ELSE /\ pc' = "item"
                     /\ i' = i + 1
                     /\ counters' = Count(counters, answer.incs)
                     /\ item_incs' = OutcomeIncs(answer.incs) /\ item_requests' = NoRequests
                     /\ all_rows' = IF answer.row THEN Append(all_rows, mms_id) ELSE all_rows
                     /\ UNCHANGED summary
    /\ UNCHANGED << paging_vars, store, call_vars, handler_vars, mutation_vars, editor_vars, func, mms_ids, batch_start,
                    batch_records, csv_rows, fetch_calls, http_gets, chunk_base,
                    items_started, broke, killed_at, last_call >>

\* on_kill_switch_click; a click while the flag is set changes nothing
KillSwitchClick ==
    /\ ~kill_switch
    /\ kill_switch' = TRUE
    /\ killed_at' = IF Running /\ PollsKillSwitch(func)
                    THEN [k |-> ItemsDone, in_flight |-> pc = "in_flight", running |-> TRUE]
                    ELSE killed_at
    /\ UNCHANGED << load_vars, store, call_vars, handler_vars, mutation_vars, set_members, limit_input, run_vars,
                    fetch_calls, http_gets, chunk_base, item_incs, item_requests, items_started,
                    broke, last_call, aborted, faults >>

Next ==
    \/ \E f \in ChunkedRuns \cup LoopRuns \cup FileRuns : StartRun(f)
    \/ ChunkHeader
    \/ ItemHeader
    \/ ItemBody
    \/ LoopHeader
    \/ LoopBody
    \/ FileHeader
    \/ FileBody
    \/ KillSwitchClick

Spec == Init /\ [][Next]_vars

(***************************************************************************)
(* Claims about the batch runs.                                            *)
(***************************************************************************)
Outcomes == Sum(counters, OutcomeCounters)

\* C1: when a batch run ends, the sum of its outcome counters equals the
\* number of identifiers iterated, and if the run was not cancelled that
\* number is the size of the collection.
C1_CountersSumToIterated ==
    pc = "done" =>
        /\ Outcomes = items_started
        /\ ~broke => Outcomes = Len(mms_ids)

\* C2: the outcome counters never decrease, and the body of the loop
\* increments exactly one outcome counter for the item it processes.
C2_CountedOnce ==
    [][ /\ \A c \in Counters : pc # "idle" => counters'[c] >= counters[c]
        /\ (pc = "in_flight" /\ pc' = "item") =>
               Sum(counters', OutcomeCounters) = Outcomes + 1 ]_vars

\* C3: if the kill switch is set between two items, after exactly k items of n
\* (1 <= k < n), the run ends with outcome counters summing to k and reports
\* n - k identifiers as skipped.
C3_CancelAfterK ==
    ( /\ func \in { "function_2", "validate_handles_to_csv" }
      /\ pc = "done"
      /\ killed_at.running /\ ~killed_at.in_flight
      /\ 1 <= killed_at.k /\ killed_at.k < Len(mms_ids) )
    => /\ Outcomes = killed_at.k
       /\ summary.skipped = Len(mms_ids) - killed_at.k

PollingRuns ==
    { "validate_handles_to_csv", "export_for_review_csv",
      "identify_single_tiff_objects", "analyze_sound_records_by_decade" }

\* C4: in the runs that poll kill_switch, while the flag is set no item is
\* started and no batch fetch is issued; only the item in flight completes.
C4_NothingStartsAfterKill ==
    [][ (kill_switch /\ func \in PollingRuns /\ Running) =>
            /\ items_started' = items_started
            /\ fetch_calls' = fetch_calls ]_vars

\* the flag was set while an item was in flight, the inner loop saw it, and
\* the outer loop resumes with identifiers left
C4_Witness ==
    /\ func \in PollingRuns /\ pc = "chunk"
    /\ kill_switch /\ killed_at.in_flight /\ broke
    /\ batch_start < Len(mms_ids)
    /\ items_started = killed_at.k + 1
    /\ Len(fetch_calls) = 1

\* C5: in export_to_csv and export_identifier_csv, once kill_switch is set no
\* further item is started.
C5_ExportsStopOnKill ==
    [][ (kill_switch /\ func \in { "export_to_csv", "export_identifier_csv" } /\ Running) =>
            items_started' = items_started ]_vars

\* C6: when the items of a chunk whose batch fetch failed have all been
\* processed, each was counted as failed exactly once and no row was written
\* for them.
C6_FailedChunkCountedOnce ==
    ( /\ func \in ChunkedRuns /\ pc = "item"
      /\ chunk_base.status # 200
      /\ i = Len(batch_ids(mms_ids, batch_start)) )
    => /\ counters["failed_count"] = chunk_base.failed + i
       /\ Len(csv_rows) + Len(all_rows) = chunk_base.rows

\* C7: a chunk whose batch fetch failed was requested 3 times before its
\* identifiers are counted as failed.
C7_FetchRetried ==
    ( /\ func \in ChunkedRuns /\ pc \in { "item", "in_flight" }
      /\ chunk_base.status # 200 )
    => http_gets = 3

\* ceil(S / B)
Ceil(S, B) == CHOOSE c \in 0..S : c * B >= S /\ (c - 1) * B < S

\* C8: a run that was not cancelled calls the batch fetch exactly ceil(S/100)
\* times, on consecutive slices of at most 100 identifiers, and every
\* identifier of the collection appears in exactly one chunk.
C8_Chunking ==
    (func \in ChunkedRuns /\ pc = "done" /\ ~broke) =>
        LET S == Len(mms_ids) IN
        /\ Len(fetch_calls) = Ceil(S, 100)
        /\ \A j \in 1..Len(fetch_calls) :
              /\ Len(fetch_calls[j]) <= 100
              /\ Len(fetch_calls[j]) >= 1
              /\ \A k \in 1..Len(fetch_calls[j]) :
                    fetch_calls[j][k] = mms_ids[100 * (j - 1) + k]
        /\ \A p \in 1..S :
              Cardinality({ j \in 1..Len(fetch_calls) :
                              mms_ids[p] \in Range(fetch_calls[j]) }) = 1

C8_Witness ==
    /\ func \in ChunkedRuns /\ pc = "done" /\ ~broke
    /\ Len(mms_ids) > 2 * batch_size
    /\ Len(fetch_calls) = 3
    /\ Len(fetch_calls[3]) < batch_size

\* the loop body has just ended with an operation whose PUT was rejected
PutRejected(call) == call.made /\ call.get_ok /\ call.put /\ ~call.put_ok

\* C11: when the PUT of a mutation operation is rejected, the identifier is
\* counted in the error counter and in no other outcome counter, the catalog
\* keeps its record, and the loop goes on to its next header.
C11_PutFailureCounted ==
    [][ (pc = "in_flight" /\ pc' = "item" /\ func \in LoopRuns /\ PutRejected(last_call')) =>
            /\ counters' = [counters EXCEPT !["error_count"] = @ + 1]
            /\ store' = store
            /\ i' = i + 1 ]_vars

\* after a rejected PUT the next identifier is being processed
C11_Witness ==
    /\ func = "function_6" /\ pc = "in_flight"
    /\ PutRejected(last_call)
    /\ counters["error_count"] >= 1
    /\ items_started = i + 1 /\ i >= 1

\* a run that ended without cancellation went through its whole collection
\* and returned its summary
RanToCompletion ==
    /\ summary.status # "failed"
    /\ ~broke => items_started = Len(mms_ids)

\* C12: an exception or error response of a per-item remote call or file
\* operation never ends the run: the remaining identifiers are processed and
\* the run returns its summary, not a run-level failure.
C12_ItemFailureAbsorbed ==
    (pc = "done" /\ aborted # "callback") => RanToCompletion

\* C13: an exception raised by the progress callback never ends the run: the
\* remaining identifiers are processed and the run returns its summary.
C13_CallbackFailureAbsorbed ==
    (pc = "done" /\ aborted # "call") => RanToCompletion

(***************************************************************************)
(* Loading a collection (SpecLoad): on_load_set_click with a Set ID or a   *)
(* CSV path, fetch_set_members, load_mms_ids_from_csv.                     *)
(***************************************************************************)
\* limit = 100, the page size of fetch_set_members
page_limit == 100

\* bound: the largest set
MaxSet == 250

SetSizes == { 0, 1, page_limit, page_limit + 1, MaxSet }

\* values of the limit field when a collection is loaded
LoadLimits == { -(MaxSet + 50), -50, -1, 0, 1, 50, page_limit, 150, MaxSet + 50 }

\* statuses of a page response
PageStatuses == { 200, 403, 500 }

\* the members the set API returns for ?limit=100&offset=off
Page(members, off) == SubSeq(members, off + 1, Min(off + page_limit, Len(members)))

\* the for loop over a page: identifiers are appended until max is reached
AppendPage(acc, members, max) ==
    IF max > 0
    THEN acc \o SubSeq(members, 1, Min(Len(members), max - Len(acc)))
    ELSE acc \o members

\* a variant that keeps the reported total whatever max is
first_total_reported(reported, max) == reported

\* total_records as set from the first response
first_total(reported, max) == IF max > 0 /\ max < reported THEN max ELSE reported

\* a variant that asks for one more page when the offset equals the total
last_page_strict(off, records) == off + page_limit > records

\* offset + limit >= total_records: no more results
last_page(off, records) == off + page_limit >= records

\* members[:n] and members[n:] for n < 0
FirstN(members, n) == SubSeq(members, 1, Min(n, Len(members)))

LastN(members, n) == SubSeq(members, Len(members) - n + 1, Len(members))

Message(kind, status) == [kind |-> kind, status |-> status]

\* a variant that returns what was accumulated before the failing page
fetch_failed_partial(status, acc) ==
    [success |-> FALSE, message |-> Message("fetch_failed", status), members |-> acc]

\* return False, f"Failed to fetch set members: {status_code}", []
fetch_failed(status, acc) ==
    [success |-> FALSE, message |-> Message("fetch_failed", status), members |-> << >>]

\* a variant that also stops early for a negative limit
api_limit_magnitude(n) == IF n > 0 THEN n ELSE -n

\* api_limit: a positive limit is applied while paging, zero or negative fetch all
api_limit(n) == IF n > 0 THEN n ELSE 0

LoadInit ==
    /\ store = << >>
    /\ m_op = "" /\ m_log = << >>
    /\ set_members = << >> /\ limit_input = 0
    /\ NoRun
    /\ remote_set \in { [members |-> Collection(n), total |-> n] : n \in SetSizes }
    /\ load_pc = "idle"
    /\ max_members = 0 /\ offset = 0 /\ all_members = << >> /\ total_records = 0
    /\ load_result = NoResult
    /\ page_requests = << >> /\ progress_calls = << >>
    /\ called = "" /\ arguments = << >> /\ returned = << >>
    /\ set_info = NoSetInfo /\ current_record = NoRecord /\ clicks = 0
    /\ started_on = << >>

\* on_load_set_click with a Set ID, up to the call of fetch_set_members
LoadSetClick ==
    /\ load_pc = "idle"
    /\ \E n \in LoadLimits :
         /\ limit_input' = n
         /\ max_members' = api_limit(n)
    /\ set_info' = SetInfo("set", "Alma")
    /\ load_pc' = "paging"
    /\ offset' = 0 /\ all_members' = << >> /\ total_records' = 0
    /\ UNCHANGED << store, call_vars, current_record, clicks, started_on, mutation_vars, set_members, kill_switch, run_vars,
                    history_vars, remote_set, load_result, page_requests,
                    progress_calls >>

\* one iteration of the while loop of fetch_set_members
PageRequest ==
    /\ load_pc = "paging"
    /\ \E status \in PageStatuses :
         /\ page_requests' = Append(page_requests, [offset |-> offset, status |-> status])
         /\ IF status # 200
            THEN /\ load_result' = fetch_failed(status, all_members)
                 /\ load_pc' = "failed"
                 /\ UNCHANGED << set_members, offset, all_members, total_records,
                                 progress_calls >>
            ELSE LET members == Page(remote_set.members, offset)
                     total_now == IF offset = 0
                                  THEN first_total(remote_set.total, max_members)
                                  ELSE total_records
                     acc == AppendPage(all_members, members, max_members)
                     leave == \/ members = << >>
                              \/ max_members > 0 /\ Len(acc) >= max_members
                              \/ last_page(offset, total_now)
                 IN  /\ total_records' = total_now
                     /\ all_members' = acc
                     /\ progress_calls' = IF members # << >> /\ total_now > 0
                                          THEN Append(progress_calls, << Len(acc), total_now >>)
                                          ELSE progress_calls
                     /\ IF leave
                        THEN /\ set_members' = acc
                             /\ load_result' = [success |-> TRUE,
                                                message |-> Message("fetched", 200),
                                                members |-> acc]
                             /\ load_pc' = "fetched"
                             /\ UNCHANGED offset
                        ELSE /\ offset' = offset + page_limit
                             /\ UNCHANGED << set_members, load_result, load_pc >>
    /\ UNCHANGED << store, call_vars, handler_vars, mutation_vars, limit_input, kill_switch, run_vars,
                    history_vars, remote_set, max_members >>

\* on_load_set_click after fetch_set_members returned the members: a
\* negative limit keeps the last |limit| of them
ApplyNegativeLimit ==
    /\ load_pc = "fetched"
    /\ set_members' = IF limit_input < 0 /\ -limit_input <= Len(load_result.members)
                      THEN LastN(load_result.members, -limit_input)
                      ELSE set_members
    /\ load_pc' = "loaded"
    /\ UNCHANGED << store, call_vars, handler_vars, mutation_vars, limit_input, kill_switch, run_vars,
                    history_vars, remote_set, max_members, offset, all_members,
                    total_records, load_result, page_requests, progress_calls >>

\* on_load_set_click with a CSV path: load_mms_ids_from_csv, then the limit
LoadCsvClick ==
    /\ load_pc = "idle"
    /\ \E n \in LoadLimits, readable \in BOOLEAN :
         LET members == remote_set.members IN
         /\ limit_input' = n
         /\ IF ~readable
            THEN /\ load_result' = [success |-> FALSE, message |-> Message("csv_error", 0),
                                    members |-> << >>]
                 /\ load_pc' = "failed"
                 /\ UNCHANGED << set_members, set_info >>
            ELSE /\ load_result' = [success |-> TRUE, message |-> Message("csv", 0),
                                    members |-> members]
                 /\ load_pc' = "loaded"
                 /\ set_info' = SetInfo("file.csv", "CSV")
                 /\ set_members' =
                        IF n > 0 /\ Len(members) > n THEN FirstN(members, n)
                        ELSE IF n < 0 /\ -n <= Len(members) THEN LastN(members, -n)
                        ELSE members
    /\ UNCHANGED << store, call_vars, current_record, clicks, started_on, mutation_vars, kill_switch, run_vars, history_vars,
                    remote_set, max_members, offset, all_members, total_records,
                    page_requests, progress_calls >>

LoadNext ==
    \/ LoadSetClick
    \/ PageRequest
    \/ ApplyNegativeLimit
    \/ LoadCsvClick

SpecLoad == LoadInit /\ [][LoadNext]_vars

(***************************************************************************)
(* Claims about loading a collection.                                      *)
(***************************************************************************)
Loaded == load_pc = "loaded"

FromSet == load_result.message.kind = "fetched"

\* the identifiers of s at positions from + 1 .. from + n, in order
IsSlice(t, s, from, n) ==
    /\ Len(t) = n
    /\ \A k \in 1..n : t[k] = s[from + k]

\* C14: loading S identifiers with limit N yields all of them for N = 0,
\* the first min(N, S) for N > 0, and the last |N| for N < 0 with |N| <= S;
\* for a remote set the last |N| are taken from a complete enumeration
\* (max_members = 0).
C14_LimitOnLoad ==
    Loaded =>
        LET all == remote_set.members
            S == Len(all)
            N == limit_input
        IN  /\ N = 0 => set_members = all
            /\ N > 0 => IsSlice(set_members, all, 0, Min(N, S))
            /\ (N < 0 /\ -N <= S) =>
                   /\ IsSlice(set_members, all, S - (-N), -N)
                   /\ FromSet => (max_members = 0 /\ load_result.members = all)

C14_Witness ==
    /\ Loaded /\ FromSet
    /\ Len(remote_set.members) = MaxSet
    /\ limit_input = -50
    /\ Len(set_members) = 50
    /\ set_members[1] = remote_set.members[MaxSet - 49]

Fetched == load_pc \in { "fetched", "loaded" } /\ FromSet

Offsets == [k \in 1..Len(page_requests) |-> page_requests[k].offset]

NoRepeats(s) == \A j, k \in 1..Len(s) : j # k => s[j] # s[k]

\* C15: with max_members = 0 and a stable set of reported total T, the
\* pages are requested at offsets 0, 100, 200, ... until a page is empty or
\* the offset reaches T, and exactly the T members are returned in page
\* order, none omitted and none repeated.
C15_FullEnumeration ==
    (Fetched /\ max_members = 0) =>
        LET T == remote_set.total
            n == Len(page_requests)
        IN  /\ n = IF T = 0 THEN 1 ELSE Ceil(T, page_limit)
            /\ \A k \in 1..n : page_requests[k].offset = (k - 1) * page_limit
            /\ \A k \in 1..n : k > 1 => page_requests[k].offset < T
            /\ load_result.members = remote_set.members
            /\ Len(load_result.members) = T
            /\ NoRepeats(load_result.members)

C15_Witness ==
    /\ Fetched /\ max_members = 0
    /\ remote_set.total = MaxSet
    /\ Offsets = << 0, page_limit, 2 * page_limit >>
    /\ Len(load_result.members) = MaxSet

\* C16: with max_members = M > 0 the enumeration stops as soon as M
\* identifiers are accumulated, also in the middle of a page and without
\* requesting further pages, returns the first min(M, available)
\* identifiers in page order, and every progress callback receives
\* min(reported total, M) as the total.
C16_EarlyStop ==
    max_members > 0 =>
        LET M == max_members
            T == remote_set.total
            kept == Min(M, Len(remote_set.members))
        IN  /\ \A k \in 1..Len(progress_calls) :
                   /\ progress_calls[k][2] = Min(T, M)
                   /\ progress_calls[k][1] = Min(k * page_limit, kept)
            /\ Len(all_members) <= M
            /\ Fetched =>
                   /\ IsSlice(load_result.members, remote_set.members, 0, kept)
                   /\ Len(page_requests) = IF kept = 0 THEN 1 ELSE Ceil(kept, page_limit)

C16_Witness ==
    /\ Fetched /\ max_members = 150
    /\ remote_set.total = MaxSet
    /\ Offsets = << 0, page_limit >>
    /\ Len(load_result.members) = 150
    /\ progress_calls = << << page_limit, 150 >>, << 150, 150 >> >>

FetchFailed == load_pc = "failed" /\ load_result.message.kind = "fetch_failed"

\* C17: a page request answered with a non-2xx status, on the first page or
\* a later one, is the last request; the result is a failure whose message
\* carries that status, and the returned collection is empty whatever was
\* accumulated from earlier pages.
C17_PageFailure ==
    /\ \A k \in 1..Len(page_requests) :
           page_requests[k].status # 200 => (k = Len(page_requests) /\ FetchFailed)
    /\ FetchFailed =>
           /\ page_requests[Len(page_requests)].status # 200
           /\ ~load_result.success
           /\ load_result.message.status = page_requests[Len(page_requests)].status
           /\ load_result.members = << >>

C17_Witness ==
    /\ FetchFailed
    /\ Len(page_requests) = 3
    /\ page_requests[3].status = 403
    /\ Len(all_members) = 2 * page_limit
    /\ load_result.members = << >>

(***************************************************************************)
(* The batch fetch on its own (SpecFetch): fetch_bib_records_batch applied *)
(* to any request and any response of the bibs endpoint.                   *)
(***************************************************************************)
\* bounds: the MMS IDs the catalog may answer with, the length of a request
MaxFetchId == 4

MaxRequest == 2

FetchIds == 1..MaxFetchId

\* requests: lists of distinct MMS IDs
Requests == { r \in SeqUpTo(FetchIds, MaxRequest) : NoRepeats(r) }

\* responses of the bibs endpoint: any set of bibs, each with the mms_id the
\* service gives it or none, or an error status
FetchResponses ==
    { [status |-> 200, bibs |-> b] : b \in SUBSET (FetchIds \cup { NoMmsId }) }
        \cup { [status |-> 500, bibs |-> {}] }

FetchInit ==
    /\ store = << >>
    /\ m_op = "" /\ m_log = << >>
    /\ set_members = << >> /\ limit_input = 0
    /\ NoRun /\ NoLoad

\* one call of fetch_bib_records_batch
FetchBatch ==
    /\ fetch_calls = << >>
    /\ \E request \in Requests, response \in FetchResponses :
         /\ mms_ids' = request
         /\ batch_records' = fetch_bib_records_batch(request, response)
         /\ fetch_calls' = Append(fetch_calls, request)
         /\ http_gets' = IF request = << >> THEN 0 ELSE 1
    /\ UNCHANGED << load_vars, store, call_vars, handler_vars, mutation_vars, editor_vars, func, pc,
                    batch_start, i, counters, all_rows, csv_rows, summary,
                    chunk_base, item_incs, item_requests, items_started, broke, killed_at,
                    last_call, aborted, faults >>

FetchNext == FetchBatch

SpecFetch == FetchInit /\ [][FetchNext]_vars

\* C18: the map returned by fetch_bib_records_batch holds only requested
\* identifiers: a record of the response with another identifier is
\* ignored, and a requested identifier missing from the response has no key.
C18_OnlyRequested ==
    fetch_calls # << >> => batch_records \subseteq Range(mms_ids)

\* the item whose body is running is absent from the result of a chunk that
\* was fetched successfully
AbsentItem ==
    /\ pc = "in_flight" /\ func \in ChunkedRuns
    /\ chunk_base.status = 200
    /\ batch_ids(mms_ids, batch_start)[i + 1] \notin batch_records

\* C19: an identifier absent from the result of a successfully fetched
\* chunk writes no row, is counted exactly once, under an outcome that is
\* not the one of an operation failure (failed_count), and the run goes on
\* to the next identifier.
C19_AbsentCountedApart ==
    [][ (AbsentItem /\ pc' = "item") =>
            /\ csv_rows' = csv_rows /\ all_rows' = all_rows
            /\ item_incs' = 1 /\ item_requests' = NoRequests
            /\ counters'["failed_count"] = counters["failed_count"]
            /\ i' = i + 1 ]_vars

(***************************************************************************)
(* Claims about the output file of a cancelled run.                        *)
(***************************************************************************)
\* the outcome counters of the items that get a row
RowCounters(f) ==
    CASE f = "export_for_review_csv" -> { "success_count", "no_handle_count" }
      [] f = "analyze_sound_records_by_decade" -> { "sound_count" }
      [] OTHER -> { "success_count" }

DataRows == SubSeq(csv_rows, 2, Len(csv_rows))

Completed == { mms_ids[k] : k \in 1..items_started }

Stopped == pc = "done" /\ broke /\ func \in ChunkedRuns

\* C20: a run stopped by the cancel flag still returns its counters, and
\* its output file holds the header and one row for every completed item
\* that yields a row; export_for_review_csv writes them after the loop was
\* left, sorted by MMS ID.
C20_PartialOutputKept ==
    Stopped =>
        /\ summary.status = "complete"
        /\ items_started < Len(mms_ids)
        /\ csv_rows # << >> /\ csv_rows[1] = column_headings
        /\ Range(DataRows) \subseteq Completed
        /\ NoRepeats(DataRows)
        /\ Len(DataRows) = Sum(counters, RowCounters(func))
        /\ func = "export_for_review_csv" =>
               /\ Range(DataRows) = Range(all_rows)
               /\ \A j, k \in 1..Len(DataRows) : j < k => DataRows[j] < DataRows[k]

C20_Witness ==
    /\ Stopped /\ func = "export_for_review_csv"
    /\ Len(DataRows) >= 2
    /\ DataRows # all_rows
    /\ items_started < Len(mms_ids)

(***************************************************************************)
(* Claims about the terminal state of a run.                               *)
(***************************************************************************)
\* C21: a run that the cancel flag stopped ends as Cancelled, which its
\* result tells apart from Completed; a result of Completed is returned
\* only when the loop finished with no cancellation.
C21_CancelledDistinguished ==
    pc = "done" =>
        /\ broke => summary.status = "stopped"
        /\ summary.status = "complete" => ~broke

(***************************************************************************)
(* Claims about order.                                                     *)
(***************************************************************************)
\* the runs whose sink writes each row when its item is processed
UnsortedSinks == { "export_to_csv", "export_identifier_csv", "validate_handles_to_csv" }

\* the item whose loop body is running
CurrentItem ==
    IF func \in ChunkedRuns THEN batch_ids(mms_ids, batch_start)[i + 1]
    ELSE mms_ids[i + 1]

\* C22: the k-th item a run processes is the k-th identifier of the
\* collection, and a sink without final sort gets each row when its item is
\* processed, after the rows of all identifiers that precede it in the
\* collection: the rows keep the relative order of the collection.
C22_CollectionOrder ==
    [][ /\ (pc = "item" /\ pc' = "in_flight") =>
               /\ items_started' = items_started + 1
               /\ CurrentItem' = mms_ids[items_started']
        /\ (func \in UnsortedSinks /\ csv_rows' # csv_rows /\ Running) =>
               /\ pc = "in_flight"
               /\ csv_rows' = Append(csv_rows, mms_ids[items_started])
               /\ Len(csv_rows) > 1 =>
                      \E k \in 1..(items_started - 1) :
                          mms_ids[k] = csv_rows[Len(csv_rows)] ]_vars

C22_Witness ==
    /\ pc = "done" /\ func = "validate_handles_to_csv"
    /\ Len(DataRows) >= 3
    /\ Len(DataRows) < Len(mms_ids)
    /\ DataRows[1] = mms_ids[1]
    /\ DataRows[Len(DataRows)] # mms_ids[Len(DataRows)]

(***************************************************************************)
(* Claims about the progress callback.                                     *)
(***************************************************************************)
\* C23: in every batch run the progress callback is called once per
\* iterated item, also for the items of identify_single_tiff_objects that
\* are absent, have no representation or have several files; its first
\* argument is strictly increasing and never exceeds the total.
C23_ProgressPerItem ==
    (func \in ChunkedRuns \cup FileRuns /\ pc \in { "chunk", "item", "done" }) =>
        /\ Len(progress_calls) = items_started
        /\ \A k \in 1..Len(progress_calls) :
               /\ progress_calls[k][2] = Len(mms_ids)
               /\ progress_calls[k][1] <= Len(mms_ids)
               /\ k > 1 => progress_calls[k - 1][1] < progress_calls[k][1]

(***************************************************************************)
(* Helper functions called on their own (SpecCalls).                       *)
(***************************************************************************)
CallsInit ==
    /\ store = << >>
    /\ m_op = "" /\ m_log = << >>
    /\ set_members = << >> /\ limit_input = 0
    /\ NoRun /\ NoLoad

\* what a call of a helper leaves alone
CallFrame ==
    UNCHANGED << store, mutation_vars, editor_vars, run_vars, history_vars, load_vars,
                 handler_vars >>

(***************************************************************************)
(* load_mms_ids_from_csv.  A file is a header (the fieldnames of the       *)
(* DictReader) and rows of cells; a row may have fewer or more cells than  *)
(* the header, and an empty row is a blank line.                           *)
(***************************************************************************)
\* bound: rows of a file
MaxRows == 2

FieldNames == { "mms_id", "MMS_ID", "title" }

Cells == { "", " ", " 991 ", "992" }

ColumnCounts == { 1, 2 }

\* str.lower() and str.strip() on these texts
Lower(name) == IF name = "MMS_ID" THEN "mms_id" ELSE name

Strip(cell) ==
    CASE cell = " " -> ""
      [] cell = " 991 " -> "991"
      [] OTHER -> cell

CsvFiles ==
    { [header |-> h, rows |-> r] :
        h \in { x \in UNION { [1..n -> FieldNames] : n \in ColumnCounts } : NoRepeats(x) },
        r \in SeqUpTo(SeqUpTo(Cells, 2), MaxRows) }

\* the position of mms_id_column in the header: the first fieldname that is
\* 'mms_id' in lower case, else the first column
mms_id_column(header) ==
    LET matching == { k \in 1..Len(header) : Lower(header[k]) = "mms_id" }
    IN  IF matching = {} THEN 1
        ELSE CHOOSE k \in matching : \A j \in matching : k <= j

\* the rows the DictReader yields: blank lines are skipped
DictRows(file) ==
    LET NotBlankLine(row) == row # << >>
    IN  SelectSeq(file.rows, NotBlankLine)

\* a row shorter than the column has None for it (restval), and
\* None.strip() raises: the except clause returns (False, message, [])
load_mms_ids_from_csv(file) ==
    LET col == mms_id_column(file.header)
        rows == DictRows(file)
        values == [k \in 1..Len(rows) |->
                       IF col <= Len(rows[k]) THEN Strip(rows[k][col]) ELSE ""]
        NotBlank(v) == v # ""
    IN  IF \E k \in 1..Len(rows) : Len(rows[k]) < col
        THEN [success |-> FALSE, members |-> << >>]
        ELSE [success |-> TRUE, members |-> SelectSeq(values, NotBlank)]

CallLoadCsv ==
    /\ called = ""
    /\ called' = "load_mms_ids_from_csv"
    /\ \E file \in CsvFiles :
         /\ arguments' = file
         /\ returned' = load_mms_ids_from_csv(file)
    /\ CallFrame

(***************************************************************************)
(* _deduplicate_values.                                                    *)
(***************************************************************************)
\* bound: the length of a list of values
MaxValues == 5

Values == { "a", "b", "c" }

\* a variant that keeps the last occurrence of each value
deduplicate_keeping_last(values) ==
    LET RECURSIVE Loop(_)
        Loop(k) ==
            IF k > Len(values) THEN << >>
            ELSE IF \E j \in (k + 1)..Len(values) : values[j] = values[k]
                 THEN Loop(k + 1)
                 ELSE << values[k] >> \o Loop(k + 1)
    IN  Loop(1)

\* the loop over values with the set seen and the list result
deduplicate_values(values) ==
    LET RECURSIVE Loop(_, _, _)
        Loop(k, seen, result) ==
            IF k > Len(values) THEN result
            ELSE IF values[k] \notin seen
                 THEN Loop(k + 1, seen \cup { values[k] }, Append(result, values[k]))
                 ELSE Loop(k + 1, seen, result)
    IN  Loop(1, {}, << >>)

CallDeduplicate ==
    /\ called = ""
    /\ called' = "_deduplicate_values"
    /\ \E values \in SeqUpTo(Values, MaxValues) :
         /\ arguments' = values
         /\ returned' = deduplicate_values(values)
    /\ CallFrame

(***************************************************************************)
(* The year and decade of analyze_sound_records_by_decade and the          *)
(* half-decade of analyze_distributions.  A date text is a list of tokens  *)
(* separated by non-word characters; a token is a run of width digits of   *)
(* the given value, or has letters in it (word).                           *)
(***************************************************************************)
\* bound: the tokens of a date text
MaxTokens == 2

Token(value, width, word) == [value |-> value, width |-> width, word |-> word]

DateTokens ==
    { Token(1967, 4, FALSE), Token(1932, 4, FALSE), Token(2099, 4, FALSE),
      Token(2100, 4, FALSE), Token(967, 4, FALSE), Token(19670301, 8, FALSE),
      Token(1950, 4, TRUE) }

DateTexts == SeqUpTo(DateTokens, MaxTokens)

\* years read from the Year column by analyze_distributions
Years == { 1000, 1932, 1960, 1964, 1965, 1967, 1969, 1999, 2000, 2024, 2099 }

\* re.search(r'\b(1[0-9]{3}|20[0-9]{2})\b', text): the year of the first
\* token that is four digits starting with 1 or with 20, 0 for no match
year_match(text) ==
    LET matches(t) == ~t.word /\ t.width = 4 /\ t.value \in 1000..2099
        found == { k \in 1..Len(text) : matches(text[k]) }
    IN  IF found = {} THEN 0
        ELSE text[CHOOSE k \in found : \A j \in found : k <= j].value

\* a variant that rounds the year to the nearest decade
decade_start_nearest(year) == ((year + 5) \div 10) * 10

\* decade_start = (year // 10) * 10
decade_start(year) == (year \div 10) * 10

\* the year, the decade ("" or f"{decade_start}s", here its start) and the
\* increment of no_date_count for the texts of dc:date and dcterms:created
year_and_decade(dc_date, dcterms_created) ==
    LET from_date == IF dc_date # << >> THEN year_match(dc_date) ELSE 0
        year == IF from_date = 0 /\ dcterms_created # << >>
                THEN year_match(dcterms_created) ELSE from_date
    IN  IF year # 0
        THEN [year |-> << year >>, decade |-> << decade_start(year), "s" >>, no_date |-> 0]
        ELSE [year |-> << >>, decade |-> << >>, no_date |-> 1]

\* start_year = (year // 5) * 5, end_year = start_year + 4
half_decade(year) == << (year \div 5) * 5, (year \div 5) * 5 + 4 >>

CallYearAndDecade ==
    /\ called = ""
    /\ called' = "year_and_decade"
    /\ \E dc_date \in DateTexts, dcterms_created \in DateTexts :
         /\ arguments' = << dc_date, dcterms_created >>
         /\ returned' = year_and_decade(dc_date, dcterms_created)
    /\ CallFrame

CallHalfDecade ==
    /\ called = ""
    /\ called' = "half_decade"
    /\ \E year \in Years :
         /\ arguments' = year
         /\ returned' = half_decade(year)
    /\ CallFrame

(***************************************************************************)
(* _map_bib_to_csv_row and the field extraction it uses.  A record is the  *)
(* values fetch_bib_records_batch stored (mms_id, title, ...) and its      *)
(* embedded document: the values of each field, or no document, or one     *)
(* that does not parse.  A cell is the list of the values joined in it:    *)
(* the empty string is the empty list.                                     *)
(***************************************************************************)
\* column_headings of export_to_csv
export_column_headings ==
    << "group_id", "collection_id", "mms_id",
       "originating_system_id", "compoundrelationship", "dc:title",
       "dcterms:alternative", "oldalttitle", "dc:identifier",
       "dcterms:identifier.dcterms:URI", "dcterms:tableOfContents", "dc:creator",
       "dc:contributor", "dc:subject", "dcterms:subject.dcterms:LCSH",
       "dc:description", "dcterms:provenance", "dcterms:bibliographicCitation",
       "dcterms:abstract", "dcterms:publisher", "dc:date",
       "dcterms:created", "dcterms:issued", "dcterms:dateSubmitted",
       "dcterms:dateAccepted", "dc:type", "dc:format",
       "dcterms:extent", "dcterms:medium", "dcterms:format.dcterms:IMT",
       "dcterms:type.dcterms:DCMIType", "dc:language", "dc:relation",
       "dcterms:isPartOf", "dc:coverage", "dcterms:spatial",
       "dcterms:spatial.dcterms:Point", "dcterms:temporal", "dc:rights",
       "dc:source", "bib custom field", "rep_label",
       "rep_public_note", "rep_access_rights", "rep_usage_type",
       "rep_library", "rep_note", "rep_custom field",
       "file_name_1", "file_label_1", "file_name_2",
       "file_label_2", "googlesheetsource", "dginfo" >>

\* the fields read from the embedded document, by the heading of the column
\* that takes them (LCSH subjects, dcterms:format and dcterms:type under
\* their own element names)
DocumentFields ==
    {  "compoundrelationship", "dc:contributor", "dc:coverage",
       "dc:creator", "dc:date", "dc:description",
       "dc:format", "dc:identifier", "dc:language",
       "dc:relation", "dc:rights", "dc:source",
       "dc:subject", "dc:title", "dc:type",
       "dcterms:abstract", "dcterms:alternative", "dcterms:bibliographicCitation",
       "dcterms:created", "dcterms:dateAccepted", "dcterms:dateSubmitted",
       "dcterms:extent", "dcterms:format", "dcterms:isPartOf",
       "dcterms:issued", "dcterms:medium", "dcterms:provenance",
       "dcterms:publisher", "dcterms:spatial", "dcterms:subject.dcterms:LCSH",
       "dcterms:tableOfContents", "dcterms:temporal", "dcterms:type",
       "dginfo", "googlesheetsource" }

Cell(text) == IF text = "" THEN << >> ELSE << text >>

IsUri(text) == text \in { "http://hdl.handle.net/11084/1", "https://digital.grinnell.edu/1" }

\* the documents a record may carry
Documents ==
    LET one(f) == IF f = "dc:identifier"
                  THEN << "dg_1", "https://digital.grinnell.edu/1", "http://hdl.handle.net/11084/1" >>
                  ELSE << f >>
        doc(state, fields) == [state |-> state, elements |-> fields]
    IN  { doc("missing", [f \in DocumentFields |-> << >>]),
          doc("malformed", [f \in DocumentFields |-> one(f)]),
          doc("parsed", [f \in DocumentFields |-> << >>]),
          doc("parsed", [f \in DocumentFields |-> one(f)]),
          doc("parsed", [f \in DocumentFields |-> one(f) \o << "second" >> \o one(f)]) }
        \cup { doc("parsed", [f \in DocumentFields |-> IF f = g THEN one(f) ELSE << >>]) :
                   g \in DocumentFields }

MapRecords ==
    [mms_id : { "991" }, originating_system_id : { "", "01GCL" },
     title : { "", "bib title" }, author : { "", "bib author" },
     date_of_publication : { "", "2001" }, document : Documents]

\* a variant that raises on a document that does not parse
extract_field_raising(bib, field) ==
    IF bib.document.state = "missing" THEN [raised |-> FALSE, values |-> << >>]
    ELSE IF bib.document.state = "malformed" THEN [raised |-> TRUE, values |-> << >>]
    ELSE [raised |-> FALSE, values |-> bib.document.elements[field]]

\* _extract_dc_field, _extract_custom_field, _extract_lcsh_subjects: no
\* anies returns [], ET.fromstring raising is caught and returns []
extract_field(bib, field) ==
    IF bib.document.state = "missing" THEN [raised |-> FALSE, values |-> << >>]
    ELSE IF bib.document.state = "malformed" THEN [raised |-> FALSE, values |-> << >>]
    ELSE [raised |-> FALSE, values |-> bib.document.elements[field]]

\* values[0] if values else fallback
first_value(extracted, fallback) ==
    IF extracted.values # << >> THEN << extracted.values[1] >> ELSE Cell(fallback)

\* " | ".join(self._deduplicate_values(values)) if values else fallback
joined_values(extracted, fallback) ==
    IF extracted.values # << >> THEN deduplicate_values(extracted.values) ELSE Cell(fallback)

\* the first identifier that starts with http:// or https://
first_uri(extracted) ==
    LET uris == { k \in 1..Len(extracted.values) : IsUri(extracted.values[k]) }
    IN  IF uris = {} THEN Cell("")
        ELSE << extracted.values[CHOOSE k \in uris : \A j \in uris : k <= j] >>

\* a variant with one row.append("") less
blanks_but_one(n) == [k \in 1..(n - 1) |-> Cell("")]

\* n times row.append("")
blanks(n) == [k \in 1..n |-> Cell("")]

\* the row, append by append
map_bib_to_csv_row(bib) ==
        << Cell(""),
           Cell(""),
           Cell(bib.mms_id),
           Cell(bib.originating_system_id),
           first_value(extract_field(bib, "compoundrelationship"), ""),
           first_value(extract_field(bib, "dc:title"), bib.title),
           joined_values(extract_field(bib, "dcterms:alternative"), ""),
           Cell(""),
           joined_values(extract_field(bib, "dc:identifier"), ""),
           first_uri(extract_field(bib, "dc:identifier")),
           joined_values(extract_field(bib, "dcterms:tableOfContents"), ""),
           joined_values(extract_field(bib, "dc:creator"), bib.author),
           joined_values(extract_field(bib, "dc:contributor"), ""),
           joined_values(extract_field(bib, "dc:subject"), ""),
           joined_values(extract_field(bib, "dcterms:subject.dcterms:LCSH"), ""),
           joined_values(extract_field(bib, "dc:description"), ""),
           joined_values(extract_field(bib, "dcterms:provenance"), ""),
           joined_values(extract_field(bib, "dcterms:bibliographicCitation"), ""),
           joined_values(extract_field(bib, "dcterms:abstract"), ""),
           joined_values(extract_field(bib, "dcterms:publisher"), ""),
           first_value(extract_field(bib, "dc:date"), bib.date_of_publication),
           first_value(extract_field(bib, "dcterms:created"), ""),
           first_value(extract_field(bib, "dcterms:issued"), ""),
           first_value(extract_field(bib, "dcterms:dateSubmitted"), ""),
           first_value(extract_field(bib, "dcterms:dateAccepted"), ""),
           first_value(extract_field(bib, "dc:type"), ""),
           first_value(extract_field(bib, "dc:format"), ""),
           joined_values(extract_field(bib, "dcterms:extent"), ""),
           first_value(extract_field(bib, "dcterms:medium"), ""),
           first_value(extract_field(bib, "dcterms:format"), ""),
           first_value(extract_field(bib, "dcterms:type"), ""),
           joined_values(extract_field(bib, "dc:language"), ""),
           joined_values(extract_field(bib, "dc:relation"), ""),
           joined_values(extract_field(bib, "dcterms:isPartOf"), ""),
           joined_values(extract_field(bib, "dc:coverage"), ""),
           joined_values(extract_field(bib, "dcterms:spatial"), ""),
           Cell(""),
           joined_values(extract_field(bib, "dcterms:temporal"), ""),
           joined_values(extract_field(bib, "dc:rights"), ""),
           joined_values(extract_field(bib, "dc:source"), ""),
           Cell("") >>
        \o blanks(7)
        \o blanks(4)
        \o << first_value(extract_field(bib, "googlesheetsource"), ""),
              first_value(extract_field(bib, "dginfo"), "") >>

CallMapRow ==
    /\ called = ""
    /\ called' = "_map_bib_to_csv_row"
    /\ \E bib \in MapRecords :
         /\ arguments' = bib
         /\ returned' = map_bib_to_csv_row(bib)
    /\ CallFrame

(***************************************************************************)
(* The body of the item loop of the runs that read the embedded document   *)
(* of a fetched record, as a function of the record.                       *)
(***************************************************************************)
DocumentRuns ==
    { "export_to_csv", "export_identifier_csv", "validate_handles_to_csv",
      "export_for_review_csv" }

\* the try block for a fetched record: an exception from the extraction
\* would reach the except clause (failed_count, no row)
item_of_record(f, bib) ==
    LET identifiers == extract_field(bib, "dc:identifier")
        handle_url == \E k \in 1..Len(identifiers.values) :
                          identifiers.values[k] = "http://hdl.handle.net/11084/1"
    IN  IF identifiers.raised THEN Effect(<< "failed_count" >>, FALSE, FALSE)
        ELSE IF f \in { "export_to_csv", "export_identifier_csv" }
             THEN Effect(<< "success_count" >>, TRUE, TRUE)
        ELSE IF handle_url THEN Effect(<< "success_count" >>, TRUE, TRUE)
        ELSE Effect(<< "no_handle_count" >>, f = "export_for_review_csv", TRUE)

CallItemOfRecord ==
    /\ called = ""
    /\ called' = "item_of_record"
    /\ \E f \in DocumentRuns, bib \in MapRecords :
         /\ arguments' = [func |-> f, record |-> bib]
         /\ returned' = [extracted |-> extract_field(bib, "dc:identifier"),
                         effect |-> item_of_record(f, bib)]
    /\ CallFrame

CallsNext ==
    \/ CallLoadCsv
    \/ CallDeduplicate
    \/ CallYearAndDecade
    \/ CallHalfDecade
    \/ CallMapRow
    \/ CallItemOfRecord

SpecCalls == CallsInit /\ [][CallsNext]_vars

\* the values of the identifier column that are not blank after trimming,
\* in file row order; a row without a cell in that column has no value
IdentifierValues(file) ==
    LET matching == { k \in 1..Len(file.header) : Lower(file.header[k]) = "mms_id" }
        col == IF matching = {} THEN 1
               ELSE CHOOSE k \in matching : \A j \in matching : k <= j
        RECURSIVE From(_)
        From(k) ==
            IF k > Len(file.rows) THEN << >>
            ELSE LET row == file.rows[k]
                     v == IF col <= Len(row) THEN Strip(row[col]) ELSE ""
                 IN  (IF v = "" THEN << >> ELSE << v >>) \o From(k + 1)
    IN  From(1)

\* C24: load_mms_ids_from_csv takes the identifiers from the column whose
\* header is 'mms_id' ignoring case, or from the first column when no header
\* matches, skips the rows whose value is blank after trimming and returns
\* the other values in file row order.
C24_IdentifierColumn ==
    called = "load_mms_ids_from_csv" =>
        /\ returned.success
        /\ returned.members = IdentifierValues(arguments)

\* C25: _deduplicate_values returns the distinct values in order of first
\* occurrence: no value twice, the same set of values, first occurrences in
\* their relative order, and a second application changes nothing;
\* [a,b,a,c,b] gives [a,b,c].
C25_Deduplicate ==
    called = "_deduplicate_values" =>
        LET first(v) == CHOOSE k \in 1..Len(arguments) :
                            /\ arguments[k] = v
                            /\ \A j \in 1..(k - 1) : arguments[j] # v
        IN  /\ NoRepeats(returned)
            /\ Range(returned) = Range(arguments)
            /\ \A j, k \in 1..Len(returned) :
                   j < k => first(returned[j]) < first(returned[k])
            /\ deduplicate_values(returned) = returned
            /\ arguments = << "a", "b", "a", "c", "b" >> => returned = << "a", "b", "c" >>

C25_Witness ==
    /\ called = "_deduplicate_values"
    /\ arguments = << "a", "b", "a", "c", "b" >>
    /\ returned = << "a", "b", "c" >>

\* the 4-digit tokens in 1000..2099 of a date text, in order
YearTokens(text) ==
    SelectSeq([k \in 1..Len(text) |->
                   IF ~text[k].word /\ text[k].width = 4
                      /\ text[k].value >= 1000 /\ text[k].value <= 2099
                   THEN text[k].value ELSE 0],
              LAMBDA y : y # 0)

\* C26: the year is the first 4-digit token in 1000..2099 of dc:date, else
\* of dcterms:created; the decade is 10 * floor(year / 10) followed by 's'
\* (1967 gives 1960s, 1932 gives 1930s); with no such token year and decade
\* are empty and no_date_count is incremented by one.  The half-decade is
\* 5 * floor(year / 5) to that value plus 4.
C26_YearAndDecade ==
    /\ called = "year_and_decade" =>
           LET tokens == YearTokens(arguments[1]) \o YearTokens(arguments[2])
           IN  IF tokens = << >>
               THEN returned = [year |-> << >>, decade |-> << >>, no_date |-> 1]
               ELSE LET y == tokens[1] IN
                    /\ returned.year = << y >>
                    /\ returned.decade = << y - (y % 10), "s" >>
                    /\ returned.no_date = 0
                    /\ y = 1967 => returned.decade[1] = 1960
                    /\ y = 1932 => returned.decade[1] = 1930
    /\ called = "half_decade" =>
           returned = << arguments - (arguments % 5), arguments - (arguments % 5) + 4 >>

C26_Witness ==
    /\ called = "year_and_decade"
    /\ arguments = << << Token(19670301, 8, FALSE) >>,
                      << Token(2100, 4, FALSE), Token(1932, 4, FALSE) >> >>
    /\ returned.year = << 1932 >>
    /\ returned.decade = << 1930, "s" >>

\* the element a column takes its value from, by heading
SourceField(heading) ==
    CASE heading = "dcterms:identifier.dcterms:URI" -> "dc:identifier"
      [] heading = "dcterms:format.dcterms:IMT" -> "dcterms:format"
      [] heading = "dcterms:type.dcterms:DCMIType" -> "dcterms:type"
      [] OTHER -> heading

\* the value of the record a column falls back to, "" for none
Fallback(bib, heading) ==
    CASE heading \in { "mms_id", "originating_system_id" } -> bib[heading]
      [] heading = "dc:title" -> bib.title
      [] heading = "dc:creator" -> bib.author
      [] heading = "dc:date" -> bib.date_of_publication
      [] OTHER -> ""

\* C27: the row built by _map_bib_to_csv_row has one value for each of the
\* 54 columns of the export_to_csv header, in header order: each cell holds
\* values of the element of its heading (or the value of the record it
\* falls back to), and a column with no value holds the empty string.
C27_RowMatchesHeader ==
    called = "_map_bib_to_csv_row" =>
        /\ Len(export_column_headings) = 54
        /\ Len(returned) = Len(export_column_headings)
        /\ \A k \in 1..Len(export_column_headings) :
               LET heading == export_column_headings[k]
                   field == SourceField(heading)
                   values == IF field \in DocumentFields
                                /\ arguments.document.state = "parsed"
                             THEN arguments.document.elements[field] ELSE << >>
                   uris == { v \in Range(values) : IsUri(v) }
               IN  /\ k <= Len(returned)
                   /\ IF heading = "dcterms:identifier.dcterms:URI"
                      THEN \/ uris = {} /\ returned[k] = << >>
                           \/ Len(returned[k]) = 1 /\ returned[k][1] \in uris
                      ELSE IF values # << >>
                      THEN /\ returned[k] # << >>
                           /\ returned[k][1] = values[1]
                           /\ Range(returned[k]) \subseteq Range(values)
                      ELSE returned[k] = Cell(Fallback(arguments, heading))

C27_Witness ==
    /\ called = "_map_bib_to_csv_row"
    /\ arguments.document.state = "parsed"
    /\ arguments.title = "bib title"
    /\ Len(returned) = 54
    /\ returned[6] = << "dc:title" >>
    /\ returned[10] = << "https://digital.grinnell.edu/1" >>
    /\ returned[37] = << >>
    /\ returned[54] = << "dginfo" >>

\* an item of a run whose record has no embedded document or one that does
\* not parse
UnreadableDocument ==
    /\ called = "item_of_record"
    /\ arguments.record.document.state \in { "missing", "malformed" }

\* C28 as stated: extracting from a malformed or missing document does not
\* raise and returns the empty list, and the batch run that called it goes
\* on and still writes a row for that record.
C28_AsStated ==
    UnreadableDocument =>
        /\ ~returned.extracted.raised
        /\ returned.extracted.values = << >>
        /\ returned.effect.callback
        /\ returned.effect.row

\* C28: extracting from a malformed or missing document does not raise and
\* returns the empty list; the run goes on, export_to_csv,
\* export_identifier_csv and export_for_review_csv still write a row for
\* the record, and validate_handles_to_csv counts it as a record without
\* handle and writes no row.
C28_DegradesToEmpty ==
    UnreadableDocument =>
        /\ ~returned.extracted.raised
        /\ returned.extracted.values = << >>
        /\ returned.effect.callback
        /\ IF arguments.func = "validate_handles_to_csv"
           THEN returned.effect = Effect(<< "no_handle_count" >>, FALSE, TRUE)
           ELSE returned.effect.row

C28_Witness ==
    /\ UnreadableDocument
    /\ arguments.func = "validate_handles_to_csv"
    /\ arguments.record.document.state = "malformed"
    /\ arguments.record.document.elements["dc:identifier"] # << >>
    /\ ~returned.effect.row

(***************************************************************************)
(* Claims about the retries of identify_single_tiff_objects.               *)
(***************************************************************************)
\* an item of identify_single_tiff_objects ends
TiffItemEnds ==
    /\ func = "identify_single_tiff_objects"
    /\ pc = "in_flight" /\ pc' = "item"

\* the retries of a remote call were used up: its last allowed attempt failed
Exhausted(attempts) ==
    /\ Len(attempts) >= max_retries
    /\ attempts[max_retries] = "timeout"

\* C29: in identify_single_tiff_objects each remote call of an item (the
\* representations list, the representation files list) is attempted at
\* most 3 times, an attempt after the first is made only after a timeout or
\* transport error, and after the last failed attempt the item is counted
\* as failed and the run goes to the next item.
C29_BoundedRetries ==
    [][ TiffItemEnds =>
            \A call \in { item_requests'.representations, item_requests'.files } :
                /\ Len(call) <= max_retries
                /\ \A k \in 2..Len(call) : call[k - 1] = "timeout"
                /\ Exhausted(call) =>
                       /\ counters' = Count(counters, << "failed_count" >>)
                       /\ csv_rows' = csv_rows
                       /\ call = item_requests'.representations =>
                              item_requests'.files = << >> ]_vars

(***************************************************************************)
(* The record written by replace_author_copyright_rights.                  *)
(***************************************************************************)
\* the occurrences of rights that are neither the target value nor legacy,
\* in document order
Unrelated(rights) ==
    RemoveAt(rights, { k \in 1..Len(rights) : IsNewValue(rights[k]) \/ IsLegacy(rights[k]) })

Targets(rights) == { k \in 1..Len(rights) : IsNewValue(rights[k]) }

\* C30: after replace_author_copyright_rights succeeds with outcome replaced,
\* added or removed_duplicates, the written record contains the target
\* rights value and no legacy-pattern dc:rights occurrence, no duplicate of
\* the target value was created (after replaced or added it occurs exactly
\* once), and the unrelated dc:rights occurrences are unchanged and in
\* their original order.
C30_WrittenRights ==
    \A k \in 1..Len(m_log) :
        LET e == m_log[k]
            written == e.res.doc.rights
        IN  (/\ m_op = "replace_author_copyright_rights"
             /\ Accepted(e)
             /\ e.res.outcome \in { "replaced", "added", "removed_duplicates" })
            => /\ e.res.put /\ e.after = e.res.doc
               /\ Targets(written) # {}
               /\ \A j \in 1..Len(written) : ~IsLegacy(written[j])
               /\ Cardinality(Targets(written)) <= Cardinality(Targets(e.before.rights)) + 1
               /\ e.res.outcome \in { "replaced", "added" } =>
                      /\ Targets(e.before.rights) = {}
                      /\ Cardinality(Targets(written)) = 1
               /\ e.res.outcome = "removed_duplicates" =>
                      Cardinality(Targets(written)) = Cardinality(Targets(e.before.rights))
               /\ Unrelated(written) = Unrelated(e.before.rights)

\* a record with two legacy occurrences around an unrelated one was rewritten
C30_Witness ==
    /\ m_op = "replace_author_copyright_rights"
    /\ Len(m_log) >= 1
    /\ Accepted(m_log[1])
    /\ m_log[1].res.outcome = "replaced"
    /\ Len(m_log[1].before.rights) = 3
    /\ IsOldLink(m_log[1].before.rights[1])
    /\ Unrelated(m_log[1].before.rights) # << >>
    /\ IsAuthorCopyright(m_log[1].before.rights[3])
    /\ Len(m_log[1].after.rights) = 2

(***************************************************************************)
(* Claims about add_grinnell_identifier and the write-back.                *)
(***************************************************************************)
\* C31: after add_grinnell_identifier returns success on a record that has
\* a dc:identifier dg_<n>, the record contains a dc:identifier Grinnell:<n>
\* for that n; a record without dg_ identifier is left unchanged and
\* nothing is written.
C31_CorrespondingIdentifier ==
    \A k \in 1..Len(m_log) :
        LET e == m_log[k]
            dgs == { t \in Range(e.before.identifiers) : IsDgIdentifier(t) }
        IN  (m_op = "add_grinnell_identifier" /\ Accepted(e))
            => /\ \A dg \in dgs : new_grinnell_id(dg) \in Range(e.after.identifiers)
               /\ dgs = {} => (e.after = e.before /\ ~e.res.put)

\* the outcomes that report that the operation found nothing to do
UnchangedOutcomes == { "no_change", "no_match", "no_dg", "exists" }

\* the search for a parent of a new dc:rights element finds none
NoParent(rec) ==
    /\ rec.rights = << >> /\ rec.relations = << >> /\ rec.identifiers = << >>
    /\ ~rec.dc_other /\ ~rec.anies_any

\* C32: a mutation operation issues its write-back PUT only when it has
\* changed the fetched document: on a no-change outcome, on a failed fetch,
\* or when no parent element is found, it issues no PUT and the record in
\* the store stays as it was.
C32_WriteOnlyOnChange ==
    \A k \in 1..Len(m_log) :
        LET e == m_log[k] IN
        /\ e.res.put => (e.get_ok /\ e.res.doc # e.before)
        /\ (\/ ~e.get_ok
            \/ e.res.outcome \in UnchangedOutcomes
            \/ (m_op = "replace_author_copyright_rights" /\ NoParent(e.before)))
           => (~e.res.put /\ e.after = e.before)

\* Function 6 met a record without parent for a new dc:rights element, and
\* then a failed fetch
C32_Witness ==
    /\ m_op = "replace_author_copyright_rights"
    /\ Len(m_log) = 2
    /\ NoParent(m_log[1].before) /\ m_log[1].get_ok
    /\ m_log[1].res.outcome = "error"
    /\ ~m_log[2].get_ok
    /\ store[TestMmsId] = m_log[1].before

(***************************************************************************)
(* Claims about the kill switch across runs.                               *)
(***************************************************************************)
\* the kill switch was not pressed while the current run was active
NotKilledDuringRun == PollsKillSwitch(func) => killed_at = NoKill

\* C33: a kill-switch activation belongs to one run: a batch run starts with
\* the flag cleared, so a run started on a non-empty collection after the
\* kill switch was pressed (while idle, or in an earlier run) processes its
\* items unless the kill switch is pressed again during that run.
C33_KillBelongsToOneRun ==
    (/\ pc = "done" /\ mms_ids # << >>
     /\ NotKilledDuringRun /\ aborted = "")
        => items_started = Len(mms_ids)

(***************************************************************************)
(* Handlers that run while a batch run is in progress (SpecHandlers).      *)
(* Every handler of the window runs on its own thread, as the kill switch  *)
(* handler does; its statements interleave with those of the run.          *)
(***************************************************************************)
\* bound: handlers started besides the run
MaxClicks == 3

\* the sets and files that can be loaded, and their members
SourceNames == { "A", "B" }

SourceMembers(name) == IF name = "A" THEN << 2, 1 >> ELSE << 3 >>

\* the runs that get editor.set_members as their argument
ExportRuns == { "export_identifier_csv", "validate_handles_to_csv" }

HandlersInit ==
    /\ store = << >>
    /\ m_op = "" /\ m_log = << >>
    /\ limit_input = 0
    /\ NoRun
    /\ remote_set = [members |-> << >>, total |-> 0]
    /\ load_pc = "idle"
    /\ max_members = 0 /\ offset = 0 /\ all_members = << >> /\ total_records = 0
    /\ load_result = NoResult
    /\ page_requests = << >> /\ progress_calls = << >>
    /\ called = "" /\ arguments = << >> /\ returned = << >>
    /\ current_record = NoRecord /\ clicks = 0 /\ started_on = << >>
    /\ \/ set_members = << >> /\ set_info = NoSetInfo
       \/ set_members = SourceMembers("A") /\ set_info = SetInfo("A", "Alma")

\* on_function_9_click, on_function_5 click: the run is called with
\* editor.set_members as its collection
ExportClick ==
    /\ pc = "idle"
    /\ set_members # << >>
    /\ \E f \in ExportRuns : func' = f
    /\ mms_ids' = set_members
    /\ started_on' = set_members
    /\ pc' = "chunk"
    /\ csv_rows' = << column_headings >>
    /\ UNCHANGED << store, mutation_vars, editor_vars, batch_start, i, batch_records,
                    counters, all_rows, summary, history_vars, load_vars, call_vars,
                    set_info, current_record, clicks >>

\* the inner loop body up to self.current_record = batch_records[mms_id];
\* an absent record ends the item here
SetCurrentRecord ==
    /\ pc = "in_flight" /\ func \in ExportRuns
    /\ LET mms_id == batch_ids(mms_ids, batch_start)[i + 1] IN
       IF mms_id \in batch_records
       THEN /\ current_record' = mms_id
            /\ pc' = "extract"
            /\ UNCHANGED << i, counters, item_incs, progress_calls >>
       ELSE /\ counters' = Count(counters, << "failed_count" >>)
            /\ item_incs' = 1
            /\ progress_calls' = Append(progress_calls, << batch_start + i + 1, total >>)
            /\ i' = i + 1
            /\ pc' = "item"
            /\ UNCHANGED current_record
    /\ UNCHANGED << store, mutation_vars, editor_vars, func, mms_ids, batch_start,
                    batch_records, all_rows, csv_rows, summary, fetch_calls, http_gets,
                    chunk_base, item_requests, items_started, broke, killed_at,
                    last_call, aborted, faults, paging_vars, call_vars, set_info,
                    clicks, started_on >>

\* the rest of the body: _extract_dc_field reads self.current_record, the
\* row is written under mms_id (validate_handles_to_csv: if it has a handle)
ExtractAndWrite ==
    /\ pc = "extract" /\ func \in ExportRuns
    /\ LET mms_id == batch_ids(mms_ids, batch_start)[i + 1]
           row == [mms_id |-> mms_id, record |-> current_record]
           written == func = "export_identifier_csv" \/ HasHandle(current_record)
       IN  /\ csv_rows' = IF written THEN Append(csv_rows, row) ELSE csv_rows
           /\ counters' = Count(counters, IF written THEN << "success_count" >>
                                          ELSE << "no_handle_count" >>)
           /\ progress_calls' = Append(progress_calls, << batch_start + i + 1, total >>)
    /\ item_incs' = 1
    /\ i' = i + 1
    /\ pc' = "item"
    /\ UNCHANGED << store, mutation_vars, editor_vars, func, mms_ids, batch_start,
                    batch_records, all_rows, summary, fetch_calls, http_gets,
                    chunk_base, item_requests, items_started, broke, killed_at,
                    last_call, aborted, faults, paging_vars, call_vars, handler_vars >>

\* execute_function_6 up to the progress text "Processing 0/{process_count}":
\* member_count and process_count are computed from editor.set_members
Function6Click ==
    /\ pc = "idle"
    /\ set_members # << >>
    /\ func' = "function_6"
    /\ started_on' = members_to_process("function_6", set_members, limit_input)
    /\ progress_calls' =
           << << 0, Len(members_to_process("function_6", set_members, limit_input)) >> >>
    /\ pc' = "counted"
    /\ UNCHANGED << store, mutation_vars, editor_vars, mms_ids, batch_start, i,
                    batch_records, counters, all_rows, csv_rows, summary, history_vars,
                    paging_vars, call_vars, set_info, current_record, clicks >>

\* the loop statement: enumerate(editor.set_members[:process_count], 1)
Function6Slice ==
    /\ pc = "counted" /\ func = "function_6"
    /\ mms_ids' = FirstN(set_members, progress_calls[1][2])
    /\ pc' = "item"
    /\ UNCHANGED << store, mutation_vars, editor_vars, func, batch_start, i,
                    batch_records, counters, all_rows, csv_rows, summary, history_vars,
                    load_vars, call_vars, handler_vars >>

\* what a handler besides the run leaves alone
HandlerFrame ==
    /\ clicks' = clicks + 1
    /\ UNCHANGED << store, mutation_vars, limit_input, kill_switch, run_vars,
                    history_vars, max_members, offset, all_members, total_records,
                    page_requests, progress_calls, call_vars, started_on >>

\* on_clear_set_click
ClearSetClick ==
    /\ load_pc = "idle" /\ clicks < MaxClicks
    /\ set_members' = << >>
    /\ set_info' = NoSetInfo
    /\ UNCHANGED << current_record, remote_set, load_pc, load_result >>
    /\ HandlerFrame

\* on_load_set_click with a Set ID, up to the return of fetch_set_details
LoadSetDetails ==
    /\ load_pc = "idle" /\ clicks < MaxClicks
    /\ \E name \in SourceNames, ok \in BOOLEAN :
         IF ok
         THEN /\ set_info' = SetInfo(name, "Alma")
              /\ remote_set' = [members |-> SourceMembers(name),
                                total |-> Len(SourceMembers(name))]
              /\ load_pc' = "details"
              /\ UNCHANGED load_result
         ELSE /\ load_result' = [success |-> FALSE, message |-> Message("set_failed", 500),
                                 members |-> << >>]
              /\ UNCHANGED << set_info, remote_set, load_pc >>
    /\ UNCHANGED << set_members, current_record >>
    /\ HandlerFrame

\* the rest of on_load_set_click: fetch_set_members and its result
LoadSetMembers ==
    /\ load_pc = "details"
    /\ \E status \in PageStatuses :
         IF status = 200
         THEN /\ set_members' = remote_set.members
              /\ load_result' = [success |-> TRUE, message |-> Message("fetched", 200),
                                 members |-> remote_set.members]
         ELSE /\ load_result' = fetch_failed(status, << >>)
              /\ UNCHANGED set_members
    /\ load_pc' = "idle"
    /\ UNCHANGED << store, mutation_vars, limit_input, kill_switch, run_vars,
                    history_vars, remote_set, max_members, offset, all_members,
                    total_records, page_requests, progress_calls, call_vars,
                    handler_vars >>

\* on_load_set_click with a CSV path
LoadCsvFile ==
    /\ load_pc = "idle" /\ clicks < MaxClicks
    /\ \E name \in SourceNames, readable \in BOOLEAN :
         IF readable
         THEN /\ set_members' = SourceMembers(name)
              /\ set_info' = SetInfo(name, "CSV")
              /\ load_result' = [success |-> TRUE, message |-> Message("csv", 0),
                                 members |-> SourceMembers(name)]
         ELSE /\ load_result' = [success |-> FALSE, message |-> Message("csv_error", 0),
                                 members |-> << >>]
              /\ UNCHANGED << set_members, set_info >>
    /\ UNCHANGED << current_record, remote_set, load_pc >>
    /\ HandlerFrame

\* on_function_1_click: fetch_bib_record stores the record it fetched
Function1Click ==
    /\ clicks < MaxClicks
    /\ \E mms_id \in 1..3 : current_record' = mms_id
    /\ UNCHANGED << set_members, set_info, remote_set, load_pc, load_result >>
    /\ HandlerFrame

HandlersNext ==
    \/ ExportClick
    \/ ChunkHeader
    \/ ItemHeader
    \/ SetCurrentRecord
    \/ ExtractAndWrite
    \/ Function6Click
    \/ Function6Slice
    \/ LoopHeader
    \/ LoopBody
    \/ ClearSetClick
    \/ LoadSetDetails
    \/ LoadSetMembers
    \/ LoadCsvFile
    \/ Function1Click

SpecHandlers == HandlersInit /\ [][HandlersNext]_vars

(***************************************************************************)
(* Claims about handlers that interleave with a run (SpecHandlers).        *)
(***************************************************************************)
\* C34: every row written for identifier X is built only from the record of
\* X, also when a handler that calls fetch_bib_record runs between the
\* moment the run sets current_record and the moment it extracts the fields.
C34_RowFromOwnRecord ==
    func \in ExportRuns =>
        \A k \in 2..Len(csv_rows) : csv_rows[k].record = csv_rows[k].mms_id

\* set_info names the source the members came from; None goes with no members
SameSource ==
    set_members = IF set_info = NoSetInfo THEN << >> ELSE SourceMembers(set_info.name)

\* C35: after any sequence of load-set, load-CSV and clear-set actions
\* set_info and set_members describe the same source; a failed load leaves
\* both as they were before it, also when fetch_set_details succeeded and
\* fetch_set_members failed.
C35_InfoMatchesMembers == load_pc = "idle" => SameSource

\* C36: the collection of a run is fixed when the run starts: clearing the
\* set or loading another one while the run is in progress changes neither
\* the identifiers it iterates, nor their order, nor the total it reports.
C36_CollectionFixed ==
    pc \in { "chunk", "item", "in_flight", "extract", "done" } =>
        /\ mms_ids = started_on
        /\ \A k \in 1..Len(progress_calls) : progress_calls[k][2] = Len(started_on)

(***************************************************************************)
(* fetch_set_members against a store that answers every page request but   *)
(* need not be stable: a page may hold members whatever the offset, and    *)
(* report any total (SpecPaging).                                          *)
(***************************************************************************)
\* what a page response may carry
PageSizes == { 0, 1, page_limit }

ReportedTotals == { 0, 1, page_limit, page_limit + 1, MaxSet, MaxSet + page_limit }

\* a variant that reads the total from every response
total_of_every_page(off, reported, max, records) == first_total(reported, max)

\* if offset == 0: total_records = ...; later responses leave it alone
total_after_page(off, reported, max, records) ==
    IF off = 0 THEN first_total(reported, max) ELSE records

PagingInit ==
    /\ store = << >>
    /\ m_op = "" /\ m_log = << >>
    /\ set_members = << >> /\ limit_input = 0
    /\ NoRun /\ NoLoad

\* one iteration of the while loop of fetch_set_members
UnstablePageRequest ==
    /\ load_pc = "paging"
    /\ \E status \in PageStatuses, n \in PageSizes, reported \in ReportedTotals :
         /\ page_requests' = Append(page_requests, [offset |-> offset, status |-> status,
                                                    size |-> n, total |-> reported])
         /\ IF status # 200
            THEN /\ load_result' = fetch_failed(status, all_members)
                 /\ load_pc' = "failed"
                 /\ UNCHANGED << set_members, offset, all_members, total_records,
                                 progress_calls >>
            ELSE LET members == [k \in 1..n |-> offset + k]
                     total_now == total_after_page(offset, reported, max_members,
                                                   total_records)
                     acc == AppendPage(all_members, members, max_members)
                     leave == \/ members = << >>
                              \/ max_members > 0 /\ Len(acc) >= max_members
                              \/ last_page(offset, total_now)
                 IN  /\ total_records' = total_now
                     /\ all_members' = acc
                     /\ progress_calls' = IF members # << >> /\ total_now > 0
                                          THEN Append(progress_calls, << Len(acc), total_now >>)
                                          ELSE progress_calls
                     /\ IF leave
                        THEN /\ set_members' = acc
                             /\ load_result' = [success |-> TRUE,
                                                message |-> Message("fetched", 200),
                                                members |-> acc]
                             /\ load_pc' = "fetched"
                             /\ UNCHANGED offset
                        ELSE /\ offset' = offset + page_limit
                             /\ UNCHANGED << set_members, load_result, load_pc >>
    /\ UNCHANGED << store, call_vars, handler_vars, mutation_vars, limit_input, kill_switch,
                    run_vars, history_vars, remote_set, max_members >>

PagingNext ==
    \/ LoadSetClick
    \/ UnstablePageRequest

\* every page request returns: the loop takes its next step
SpecPaging == PagingInit /\ [][PagingNext]_vars /\ WF_vars(UnstablePageRequest)

\* max(1, ceil(t / 100))
MaxPageRequests(t) ==
    IF t <= page_limit THEN 1 ELSE (t + page_limit - 1) \div page_limit

\* C37: fetch_set_members terminates whenever every page request returns:
\* the total is read from the first page only, so the loop issues at most
\* max(1, ceil(total / 100)) page requests, whatever later pages hold or
\* report, and then returns.
C37_PagingTerminates ==
    /\ [](page_requests # << >> =>
              Len(page_requests) <= MaxPageRequests(page_requests[1].total))
    /\ (load_pc = "paging") ~> (load_pc \in { "fetched", "failed" })

\* the loop returned after three requests although the later pages were
\* full and reported a larger total than the first
C37_Witness ==
    /\ load_pc = "fetched"
    /\ Len(page_requests) = 3
    /\ page_requests[1].total = MaxSet
    /\ page_requests[3].size = page_limit
    /\ page_requests[3].total > page_requests[1].total
    /\ Len(all_members) = 3 * page_limit

====
